---------------------------- MODULE Spec2Model ----------------------------
(***************************************************************************)
(* A model of samuel/go-redis: the integer codec (strconv.go), the wire    *)
(* codec and command serialisation (connection.go), the connection pool    *)
(* (client.go), the Reply holders and the Pipeline (pipeline.go).          *)
(*                                                                         *)
(* Bytes are their values 0..255 and a []byte or string is a sequence of   *)
(* them.  An int64 / uint64 is its 64-bit pattern, kept as four 16-bit     *)
(* limbs, least significant first, so that the arithmetic wraps exactly as *)
(* Go's does.  A Go error is a record whose kind is "nil",                 *)
(* "ErrInvalidValue", "ErrInvalidReplyMarker", "ErrInvalidArgumentType",   *)
(* "ErrReply" or "io"; a run-time panic is the kind "panic" and a fatal    *)
(* error of the runtime, which ends the process, the kind "fatal".         *)
(***************************************************************************)
EXTENDS Integers, Sequences, FiniteSets, TLC

\* F applied to the value v: names a result that is used more than once
Let(v, F(_)) == F(v)

(***************************************************************************)
(* 64-bit integers                                                         *)
(***************************************************************************)
LimbBase == 2^16

\* u * m + d modulo 2^64, for small m and d
U64MulAdd(u, m, d) ==
    LET t0 == u[1] * m + d
        t1 == u[2] * m + (t0 \div LimbBase)
        t2 == u[3] * m + (t1 \div LimbBase)
        t3 == u[4] * m + (t2 \div LimbBase)
    IN <<t0 % LimbBase, t1 % LimbBase, t2 % LimbBase, t3 % LimbBase>>

\* -u modulo 2^64 (two's complement)
U64Neg(u) ==
    U64MulAdd(<<LimbBase - 1 - u[1], LimbBase - 1 - u[2],
                LimbBase - 1 - u[3], LimbBase - 1 - u[4]>>, 1, 1)

\* the int64 pattern of a small integer n, -2^30 < n < 2^30
I64(n) ==
    IF n >= 0 THEN <<n % LimbBase, n \div LimbBase, 0, 0>>
    ELSE U64Neg(<<(0 - n) % LimbBase, (0 - n) \div LimbBase, 0, 0>>)

MinInt64 == <<0, 0, 0, 2^15>>
MaxInt64 == <<LimbBase - 1, LimbBase - 1, LimbBase - 1, 2^15 - 1>>

\* u / d and u % d for a small d > 0
U64DivMod(u, d) ==
    LET c3 == u[4]
        c2 == (c3 % d) * LimbBase + u[3]
        c1 == (c2 % d) * LimbBase + u[2]
        c0 == (c1 % d) * LimbBase + u[1]
    IN [q |-> <<c0 \div d, c1 \div d, c2 \div d, c3 \div d>>, r |-> c0 % d]

\* u >= n for a small n
U64GE(u, n) == u[2] + u[3] + u[4] > 0 \/ u[1] >= n

I64IsNeg(i) == i[4] >= 2^15

\* an int64 of magnitude below 2^30, as an integer
I64Small(i) ==
    IF I64IsNeg(i) THEN Let(U64Neg(i), LAMBDA m : 0 - (m[1] + m[2] * LimbBase))
    ELSE i[1] + i[2] * LimbBase

(***************************************************************************)
(* Errors                                                                  *)
(***************************************************************************)
Err(k) == [kind |-> k, tag |-> <<>>, msg |-> <<>>]
Nil == Err("nil")
ErrInvalidReplyMarker  == Err("ErrInvalidReplyMarker")
ErrInvalidValue        == Err("ErrInvalidValue")
ErrInvalidArgumentType == Err("ErrInvalidArgumentType")
\* an error of the stream itself: EOF, a short read, a failed flush or dial
ErrIO == Err("io")
\* not an error value: the goroutine panicked
Panic == Err("panic")
\* not an error value: the runtime ended the process (fatal error: out of
\* memory)
Fatal == Err("fatal")
IsErrReply(e) == e.kind = "ErrReply"

(***************************************************************************)
(* strconv.go                                                              *)
(***************************************************************************)
\* '0' + j % 10 and '0' + j / 10: the two 100-entry digit tables
digits01 == [j \in 0..99 |-> 48 + (j % 10)]
digits10 == [j \in 0..99 |-> 48 + (j \div 10)]

\* the loop of btoi64 from index i (1-based) on
RECURSIVE btoi64Loop(_, _, _)
btoi64Loop(b, i, i64) ==
    IF i > Len(b) THEN [v |-> i64, err |-> Nil]
    ELSE IF b[i] < 48 \/ b[i] > 57
    THEN [v |-> I64(0), err |-> ErrInvalidValue]
    ELSE btoi64Loop(b, i + 1, U64MulAdd(i64, 10, b[i] - 48))

\* a faulty btoi64: the sign is read and then forgotten
btoi64Unsigned(b) ==
    IF Len(b) = 0 THEN [v |-> I64(0), err |-> ErrInvalidValue]
    ELSE IF b[1] = 45 /\ Len(b) < 2 THEN [v |-> I64(0), err |-> ErrInvalidValue]
    ELSE btoi64Loop(b, IF b[1] = 45 THEN 2 ELSE 1, I64(0))

\* a faulty btoi64: the test for a sign that nothing follows is missing
btoi64AcceptsLoneSign(b) ==
    IF Len(b) = 0 THEN [v |-> I64(0), err |-> ErrInvalidValue]
    ELSE Let(btoi64Loop(b, IF b[1] = 45 THEN 2 ELSE 1, I64(0)), LAMBDA r :
             IF r.err = Nil /\ b[1] = 45
             THEN [v |-> U64Neg(r.v), err |-> Nil]
             ELSE r)

\* a faulty btoi64: a numeral too long for an int64 is refused
btoi64RefusesLong(b) ==
    IF Len(b) = 0 \/ Len(b) > 19 THEN [v |-> I64(0), err |-> ErrInvalidValue]
    ELSE IF b[1] = 45 /\ Len(b) < 2 THEN [v |-> I64(0), err |-> ErrInvalidValue]
    ELSE Let(btoi64Loop(b, IF b[1] = 45 THEN 2 ELSE 1, I64(0)), LAMBDA r :
             IF r.err = Nil /\ b[1] = 45
             THEN [v |-> U64Neg(r.v), err |-> Nil]
             ELSE r)

btoi64(b) ==
    IF Len(b) = 0 THEN [v |-> I64(0), err |-> ErrInvalidValue]
    ELSE IF b[1] = 45 /\ Len(b) < 2 THEN [v |-> I64(0), err |-> ErrInvalidValue]
    ELSE Let(btoi64Loop(b, IF b[1] = 45 THEN 2 ELSE 1, I64(0)), LAMBDA r :
             IF r.err = Nil /\ b[1] = 45
             THEN [v |-> U64Neg(r.v), err |-> Nil]
             ELSE r)

\* the for u >= 100 loop: a is the filled tail a[o:] of the 24-byte array
RECURSIVE itob64Pairs(_, _)
itob64Pairs(u, a) ==
    IF U64GE(u, 100)
    THEN Let(U64DivMod(u, 100), LAMBDA qr :
             itob64Pairs(qr.q, <<digits10[qr.r], digits01[qr.r]>> \o a))
    ELSE [u |-> u, a |-> a]

\* the digits after the loop: one more if u >= 10, then the last
itob64Tail(p) ==
    IF U64GE(p.u, 10)
    THEN Let(U64DivMod(p.u, 10), LAMBDA qr :
             <<digits01[qr.q[1]], digits01[qr.r]>> \o p.a)
    ELSE <<digits01[p.u[1]]>> \o p.a

\* the full representation a[o:] that itob64 builds for i # 0
itob64Full(i) ==
    IF I64IsNeg(i) THEN <<45>> \o itob64Tail(itob64Pairs(U64Neg(i), <<>>))
    ELSE itob64Tail(itob64Pairs(i, <<>>))

Min(x, y) == IF x < y THEN x ELSE y

\* a faulty itob64: a short buffer is given the last bytes of the digits
itob64KeepsTail(i, blen) ==
    IF blen < 1 THEN <<>>
    ELSE IF i = I64(0) THEN <<48>>
    ELSE Let(itob64Full(i), LAMBDA a : SubSeq(a, Len(a) - Min(Len(a), blen) + 1, Len(a)))

\* itob64(i, b) for a buffer b of blen bytes: the bytes of the returned slice
itob64(i, blen) ==
    IF blen < 1 THEN <<>>
    ELSE IF i = I64(0) THEN <<48>>
    ELSE Let(itob64Full(i), LAMBDA a : SubSeq(a, 1, Min(Len(a), blen)))

(***************************************************************************)
(* connection.go: errors and reply markers                                 *)
(***************************************************************************)
statusReplyMarker    == 43   \* '+'
errorReplyMarker     == 45   \* '-'
integerReplyMarker   == 58   \* ':'
bulkReplyMarker      == 36   \* '$'
multiBulkReplyMarker == 42   \* '*'
eol == <<13, 10>>
connectionBufferSize == 1024
\* bufio.NewReader: the size of the read buffer a connection is given
ReaderSize == 4096
\* the size of the buffer of bufio.NewWriter
WriterSize == 4096

\* the first index of byte b in s, 0 if there is none
FirstIndex(s, b) ==
    IF \E k \in 1..Len(s) : s[k] = b
    THEN CHOOSE k \in 1..Len(s) : s[k] = b /\ \A j \in 1..(k - 1) : s[j] # b
    ELSE 0

\* strings.SplitN(s, " ", n) for n = 1 and n = 2
SplitN(s, n) ==
    IF n = 1 THEN <<s>>
    ELSE Let(FirstIndex(s, 32), LAMBDA k0 :
             IF k0 = 0 THEN <<s>>
             ELSE <<SubSeq(s, 1, k0 - 1), SubSeq(s, k0 + 1, Len(s))>>)

\* p[0], p[1] of the slice SplitN(s, " ", 1) returns: with one element,
\* p[1] is an index out of range
parseErrReply(s) ==
    Let(SplitN(s, 1), LAMBDA p :
        IF Len(p) < 2 THEN Panic
        ELSE [kind |-> "ErrReply", tag |-> p[1], msg |-> p[2]])

(***************************************************************************)
(* The buffered reader.  A stream is the bytes the peer has sent that      *)
(* have not been consumed; reading past its end is an I/O error (EOF, or   *)
(* the read deadline).                                                     *)
(***************************************************************************)
ReadByte(s) ==
    IF Len(s) = 0 THEN [b |-> 0, err |-> ErrIO, rest |-> s]
    ELSE [b |-> s[1], err |-> Nil, rest |-> Tail(s)]

\* bufio.Reader.ReadLine
ReadLine(s) ==
    Let(FirstIndex(SubSeq(s, 1, Min(Len(s), ReaderSize)), 10), LAMBDA k0 :
        IF k0 > 0
        THEN [line |-> SubSeq(s, 1, IF k0 > 1 /\ s[k0 - 1] = 13 THEN k0 - 2 ELSE k0 - 1),
              isPrefix |-> FALSE, err |-> Nil, rest |-> SubSeq(s, k0 + 1, Len(s))]
        ELSE IF Len(s) >= ReaderSize
        THEN \* the buffer is full: a trailing '\r' is put back
             Let(IF s[ReaderSize] = 13 THEN ReaderSize - 1 ELSE ReaderSize, LAMBDA n :
                 [line |-> SubSeq(s, 1, n), isPrefix |-> TRUE,
                  err |-> Nil, rest |-> SubSeq(s, n + 1, Len(s))])
        ELSE IF Len(s) = 0
        THEN [line |-> <<>>, isPrefix |-> FALSE, err |-> ErrIO, rest |-> s]
        ELSE [line |-> s, isPrefix |-> FALSE, err |-> Nil, rest |-> <<>>])

\* io.ReadFull(rc.rw, b) for len(b) = n
ReadFull(s, n) ==
    IF Len(s) < n THEN [b |-> s, err |-> ErrIO, rest |-> <<>>]
    ELSE [b |-> SubSeq(s, 1, n), err |-> Nil, rest |-> SubSeq(s, n + 1, Len(s))]

(***************************************************************************)
(* connection.go: reads.  Each takes the stream and returns its results,   *)
(* the error and the stream left.                                          *)
(***************************************************************************)
\* readError from its ReadLine on
readErrorLine(s) ==
    Let(ReadLine(s), LAMBDA l :
        IF l.err # Nil THEN [err |-> l.err, rest |-> l.rest]
        ELSE IF l.isPrefix THEN [err |-> ErrInvalidValue, rest |-> l.rest]
        ELSE [err |-> parseErrReply(l.line), rest |-> l.rest])

readError(s, readMarker) ==
    IF ~readMarker THEN readErrorLine(s)
    ELSE Let(ReadByte(s), LAMBDA m :
             IF m.err # Nil THEN [err |-> m.err, rest |-> m.rest]
             ELSE IF m.b # errorReplyMarker
             THEN [err |-> ErrInvalidReplyMarker, rest |-> m.rest]
             ELSE readErrorLine(m.rest))

readI64(s) ==
    Let(ReadByte(s), LAMBDA m :
        IF m.err # Nil
        THEN [n |-> I64(-1), marker |-> m.b, err |-> m.err, rest |-> m.rest]
        ELSE IF m.b = errorReplyMarker
        THEN Let(readError(m.rest, FALSE), LAMBDA e :
                 [n |-> I64(-1), marker |-> m.b, err |-> e.err, rest |-> e.rest])
        ELSE Let(ReadLine(m.rest), LAMBDA l :
                 IF l.err # Nil
                 THEN [n |-> I64(-1), marker |-> m.b, err |-> l.err, rest |-> l.rest]
                 ELSE IF l.isPrefix
                 THEN [n |-> I64(-1), marker |-> m.b, err |-> ErrInvalidValue,
                       rest |-> l.rest]
                 ELSE Let(btoi64(l.line), LAMBDA v :
                          [n |-> v.v, marker |-> m.b, err |-> v.err, rest |-> l.rest])))

\* a faulty readInteger: the marker is not validated
readIntegerAnyMarker(s) ==
    Let(readI64(s), LAMBDA r : [i |-> r.n, err |-> r.err, rest |-> r.rest])

readInteger(s) ==
    Let(readI64(s), LAMBDA r :
        [i |-> r.n,
         err |-> IF r.err = Nil /\ r.marker # integerReplyMarker
                 THEN ErrInvalidReplyMarker ELSE r.err,
         rest |-> r.rest])

readArgumentCount(s) ==
    Let(readI64(s), LAMBDA r :
        [i |-> r.n,
         err |-> IF r.err = Nil /\ r.marker # multiBulkReplyMarker
                 THEN ErrInvalidReplyMarker ELSE r.err,
         rest |-> r.rest])

\* a []byte result: Go's nil, or the bytes
NilBytes == [null |-> TRUE, b |-> <<>>]
Bytes(b) == [null |-> FALSE, b |-> b]

\* a non-negative int64 below 2^30, which I64Small gives as an integer
I64IsSmall(n) == n[3] = 0 /\ n[4] = 0 /\ n[2] < 2^14

\* a non-negative int64 n whose n+2 is a length make([]byte, n+2) takes: not
\* negative, which it is when the sum overflows, and at most 2^48, the
\* largest allocation of the runtime; any other length makes make panic
I64FitsLen(n) ==
    Let(U64MulAdd(n, 1, 2), LAMBDA v :
        ~I64IsNeg(v) /\ (v[4] = 0 \/ v = <<0, 0, 0, 1>>))

\* The machine the process runs on: an allocation of 2^memory bytes or more
\* is one the OS has no memory for.
VARIABLE memory

\* an allocation of v bytes, v a length make takes, finds no memory:
\* v >= 2^memory
OutOfMemory(v) ==
    \/ \E j \in ((memory \div 16) + 2)..4 : v[j] > 0
    \/ v[(memory \div 16) + 1] >= 2^(memory % 16)

\* a faulty readPayload: n bytes are read, the terminator is left in the stream
readPayloadLeavesTerminator(n, rest) ==
    IF ~I64FitsLen(n) THEN [b |-> <<>>, err |-> Panic, rest |-> rest]
    ELSE IF OutOfMemory(U64MulAdd(n, 1, 2)) THEN [b |-> <<>>, err |-> Fatal, rest |-> rest]
    ELSE IF ~I64IsSmall(n)
    THEN Let(ReadFull(rest, Len(rest) + 1), LAMBDA f :
             [b |-> <<>>, err |-> f.err, rest |-> f.rest])
    ELSE Let(ReadFull(rest, I64Small(n)), LAMBDA f :
             IF f.err # Nil THEN [b |-> <<>>, err |-> f.err, rest |-> f.rest]
             ELSE [b |-> f.b, err |-> Nil, rest |-> f.rest])

\* make([]byte, n+2) and io.ReadFull into it, for n >= 0: the first n bytes.
\* A length make does not take panics, and one there is no memory for ends
\* the process, in both cases with the stream as it is.  No stream here has
\* 2^30 bytes: of a length from 2^30 on that there is memory for,
\* io.ReadFull takes what there is and fails at the end.
readPayload(n, rest) ==
    IF ~I64FitsLen(n) THEN [b |-> <<>>, err |-> Panic, rest |-> rest]
    ELSE IF OutOfMemory(U64MulAdd(n, 1, 2)) THEN [b |-> <<>>, err |-> Fatal, rest |-> rest]
    ELSE IF ~I64IsSmall(n)
    THEN Let(ReadFull(rest, Len(rest) + 1), LAMBDA f :
             [b |-> <<>>, err |-> f.err, rest |-> f.rest])
    ELSE Let(ReadFull(rest, I64Small(n) + 2), LAMBDA f :
             IF f.err # Nil THEN [b |-> <<>>, err |-> f.err, rest |-> f.rest]
             ELSE [b |-> SubSeq(f.b, 1, Len(f.b) - 2), err |-> Nil, rest |-> f.rest])

\* a faulty readBulkBytes: the marker is validated before the length is looked at
readBulkBytesMarkerFirst(s) ==
    Let(readI64(s), LAMBDA r :
        IF r.err # Nil THEN [val |-> NilBytes, err |-> r.err, rest |-> r.rest]
        ELSE IF r.marker # bulkReplyMarker
        THEN [val |-> NilBytes, err |-> ErrInvalidReplyMarker, rest |-> r.rest]
        ELSE IF I64IsNeg(r.n) THEN [val |-> NilBytes, err |-> Nil, rest |-> r.rest]
        ELSE Let(readPayload(r.n, r.rest), LAMBDA p :
                 IF p.err # Nil THEN [val |-> NilBytes, err |-> p.err, rest |-> p.rest]
                 ELSE [val |-> Bytes(p.b), err |-> Nil, rest |-> p.rest]))

readBulkBytes(s) ==
    Let(readI64(s), LAMBDA r :
        IF r.err # Nil THEN [val |-> NilBytes, err |-> r.err, rest |-> r.rest]
        ELSE IF I64IsNeg(r.n) THEN [val |-> NilBytes, err |-> Nil, rest |-> r.rest]
        ELSE IF r.marker # bulkReplyMarker
        THEN [val |-> NilBytes, err |-> ErrInvalidReplyMarker, rest |-> r.rest]
        ELSE Let(readPayload(r.n, r.rest), LAMBDA p :
                 IF p.err # Nil THEN [val |-> NilBytes, err |-> p.err, rest |-> p.rest]
                 ELSE [val |-> Bytes(p.b), err |-> Nil, rest |-> p.rest]))

\* readBulkString on a connection whose rc.buf has blen bytes.  val is the
\* string returned; buf is what the read left at the head of rc.buf: the
\* n+2 bytes when they fit there, nothing when a buffer was made for them.
readBulkString(s, blen) ==
    Let(readI64(s), LAMBDA r :
        IF r.err # Nil THEN [val |-> <<>>, err |-> r.err, rest |-> r.rest, buf |-> <<>>]
        ELSE IF I64IsNeg(r.n)
        THEN [val |-> <<>>, err |-> Nil, rest |-> r.rest, buf |-> <<>>]
        ELSE IF r.marker # bulkReplyMarker
        THEN [val |-> <<>>, err |-> ErrInvalidReplyMarker, rest |-> r.rest, buf |-> <<>>]
        ELSE Let(readPayload(r.n, r.rest), LAMBDA p :
                 IF p.err # Nil
                 THEN [val |-> <<>>, err |-> p.err, rest |-> p.rest,
                       buf |-> IF I64IsSmall(r.n) /\ I64Small(r.n) + 2 <= blen
                               THEN r.rest ELSE <<>>]
                 ELSE [val |-> p.b, err |-> Nil, rest |-> p.rest,
                       buf |-> IF Len(p.b) + 2 <= blen
                               THEN SubSeq(r.rest, 1, Len(p.b) + 2) ELSE <<>>]))

readStatusBytes(s) ==
    Let(ReadByte(s), LAMBDA m :
        IF m.err # Nil THEN [val |-> NilBytes, err |-> m.err, rest |-> m.rest]
        ELSE Let(ReadLine(m.rest), LAMBDA l :
                 IF l.err # Nil THEN [val |-> NilBytes, err |-> l.err, rest |-> l.rest]
                 ELSE IF l.isPrefix
                 THEN [val |-> NilBytes, err |-> ErrInvalidValue, rest |-> l.rest]
                 ELSE IF m.b = statusReplyMarker
                 THEN [val |-> Bytes(l.line), err |-> Nil, rest |-> l.rest]
                 ELSE IF m.b = errorReplyMarker
                 THEN [val |-> NilBytes, err |-> parseErrReply(l.line), rest |-> l.rest]
                 ELSE IF m.b = bulkReplyMarker /\ l.line = <<45, 49>>
                 THEN [val |-> NilBytes, err |-> Nil, rest |-> l.rest]
                 ELSE [val |-> NilBytes, err |-> ErrInvalidReplyMarker, rest |-> l.rest]))

(***************************************************************************)
(* connection.go: writes.  A connection's write side is c = [w, buf, blen]:*)
(* w the bytes in the buffered writer, buf the bytes at the head of the    *)
(* scratch buffer rc.buf, blen its length.  What reaches the socket when   *)
(* the writer is full, and a Write that fails, are bufioWrite's and        *)
(* bufioFlush's, with the Pipeline.                                        *)
(***************************************************************************)
\* copy(b[:n], a[o:]): the head of rc.buf after r has been written there
Overlay(r, buf) ==
    IF Len(buf) > Len(r) THEN r \o SubSeq(buf, Len(r) + 1, Len(buf)) ELSE r

\* itob64(i, rc.buf) writes its digits into rc.buf and they are written out
writeI64(c, marker, i) ==
    Let(itob64(i, c.blen), LAMBDA r :
        [c EXCEPT !.buf = Overlay(r, @), !.w = @ \o <<marker>> \o r \o eol])

writeArgumentCount(c, count) == writeI64(c, multiBulkReplyMarker, I64(count))

writeBulkString(c, v) ==
    Let(writeI64(c, bulkReplyMarker, I64(Len(v))), LAMBDA c1 :
        [c1 EXCEPT !.w = @ \o v \o eol])

\* a []byte argument: bytes of its own, or the slice rc.buf[:n] itob64 returned
OwnBytes(b) == [alias |-> FALSE, n |-> Len(b), b |-> b]
BufSlice(n) == [alias |-> TRUE, n |-> n, b |-> <<>>]

\* len(v) is written through rc.buf before v is read: a slice of rc.buf
\* holds what rc.buf holds at the moment it is read
writeBulkBytes(c, v) ==
    Let(writeI64(c, bulkReplyMarker, I64(v.n)), LAMBDA c1 :
        [c1 EXCEPT !.w = @ \o (IF v.alias THEN SubSeq(c1.buf, 1, v.n) ELSE v.b) \o eol])

\* the arguments sendCommand is given: their dynamic type and value
StrArg(b)      == [kind |-> "string", i |-> I64(0), b |-> b]
BytesArg(b)    == [kind |-> "bytes", i |-> I64(0), b |-> b]
IntArg(n)      == [kind |-> "int", i |-> I64(n), b |-> <<>>]
Int64Arg(n)    == [kind |-> "int64", i |-> I64(n), b |-> <<>>]
DurationArg(n) == [kind |-> "duration", i |-> I64(n), b |-> <<>>]
\* a value of any other type, a bool for one
OtherArg       == [kind |-> "other", i |-> I64(0), b |-> <<>>]

\* one argument of the switch in sendCommand
\* a faulty sendArg: an empty bulk string is written for an unsupported argument
sendArgWritesUnsupported(c, a) ==
    IF a.kind \in {"int", "int64", "duration"}
    THEN Let(itob64(a.i, c.blen), LAMBDA r :
             [c |-> writeBulkBytes([c EXCEPT !.buf = Overlay(r, @)], BufSlice(Len(r))),
              err |-> Nil])
    ELSE IF a.kind = "bytes" THEN [c |-> writeBulkBytes(c, OwnBytes(a.b)), err |-> Nil]
    ELSE IF a.kind = "string" THEN [c |-> writeBulkString(c, a.b), err |-> Nil]
    ELSE [c |-> writeBulkString(c, <<>>), err |-> ErrInvalidArgumentType]

sendArg(c, a) ==
    IF a.kind \in {"int", "int64", "duration"}
    THEN Let(itob64(a.i, c.blen), LAMBDA r :
             [c |-> writeBulkBytes([c EXCEPT !.buf = Overlay(r, @)], BufSlice(Len(r))),
              err |-> Nil])
    ELSE IF a.kind = "bytes" THEN [c |-> writeBulkBytes(c, OwnBytes(a.b)), err |-> Nil]
    ELSE IF a.kind = "string" THEN [c |-> writeBulkString(c, a.b), err |-> Nil]
    ELSE [c |-> c, err |-> ErrInvalidArgumentType]

\* the loop of sendCommand from the k-th argument on
RECURSIVE sendArgs(_, _, _)
sendArgs(c, args, k) ==
    IF k > Len(args) THEN [c |-> c, err |-> Nil]
    ELSE Let(sendArg(c, args[k]), LAMBDA r :
             IF r.err # Nil THEN r ELSE sendArgs(r.c, args, k + 1))

sendCommand(c, cmd, args) ==
    sendArgs(writeBulkString(writeArgumentCount(c, 1 + Len(args)), cmd), args, 1)

(***************************************************************************)
(* The server.  It answers each command it receives with one reply frame.  *)
(* A reply is [t, b]: a bulk payload, the null bulk, an error line, a      *)
(* status line, an integer line, or a bulk header whose length is no       *)
(* number.                                                                 *)
(***************************************************************************)
\* the ASCII decimal digits of a natural number
RECURSIVE Decimal(_)
Decimal(n) == IF n < 10 THEN <<48 + n>> ELSE Decimal(n \div 10) \o <<48 + (n % 10)>>

Reply(t, b) == [t |-> t, b |-> b]

EncodeReply(r) ==
    CASE r.t = "bulk"    -> <<36>> \o Decimal(Len(r.b)) \o <<13, 10>> \o r.b \o <<13, 10>>
      [] r.t = "null"    -> <<36, 45, 49, 13, 10>>
      [] r.t = "error"   -> <<45>> \o r.b \o <<13, 10>>
      [] r.t = "status"  -> <<43>> \o r.b \o <<13, 10>>
      [] r.t = "integer" -> <<58>> \o r.b \o <<13, 10>>
      [] r.t = "badlen"  -> <<36>> \o r.b \o <<13, 10>>
      [] r.t = "array"   -> <<42, 49, 13, 10, 36>> \o Decimal(Len(r.b)) \o <<13, 10>>
                               \o r.b \o <<13, 10>>
      [] r.t = "array2"  -> <<42, 50, 13, 10, 36>> \o Decimal(Len(r.b)) \o <<13, 10>>
                               \o r.b \o <<13, 10, 36>> \o Decimal(Len(r.b)) \o <<13, 10>>
                               \o r.b \o <<13, 10>>

RECURSIVE EncodeReplies(_)
EncodeReplies(rs) ==
    IF rs = <<>> THEN <<>> ELSE EncodeReply(Head(rs)) \o EncodeReplies(Tail(rs))

BulkReplies == {Reply("bulk", <<97, 98>>), Reply("null", <<>>)}
ErrorReplies == {Reply("error", <<69, 32, 120>>)}            \* "-E x"
StatusReplies == {Reply("status", <<79, 75>>),              \* "+OK"
                  Reply("status", <<80, 79, 78, 71>>),      \* "+PONG"
                  Reply("status", <<110, 111, 110, 101>>)}  \* "+none"
ServerReplies == BulkReplies \cup ErrorReplies \cup StatusReplies \cup
                 {Reply("integer", <<55>>),                 \* ":7"
                  Reply("badlen", <<120>>)}                 \* "$x"
\* the replies to a single-shot request: those, and a multi-bulk reply
RequestReplies == ServerReplies \cup {Reply("array", <<97, 98>>)}

(***************************************************************************)
(* Bounds of the model                                                     *)
(***************************************************************************)
NumCallers == 2      \* goroutines issuing single-shot requests
MaxConns   == 2      \* connections dialed in one run
MaxBatch   == 2      \* commands enqueued in one Pipeline
MaxIdleCfg == 1      \* largest maximum SetMaxIdleConncetions is given
MaxQueue   == 2      \* bulk payloads written to the test connection and not yet read
MaxCut     == 2      \* bytes of the first segment of a reply that arrives in two

Callers == 1..NumCallers

(***************************************************************************)
(* client.go                                                               *)
(***************************************************************************)
DefaultMaxIdleConnections == 6

\* the requests callers make: the method that makes it, the read of its
\* reply, the command and its arguments: Ping, Quit, BGRewriteAOF, Select(0),
\* Set("k", "v", 0), Set("k", "v", time.Minute), SetNX("k", "v", 0),
\* SetXX("k", "v", 0), Incr("k"), Decr("k"), Get("k"), MGet("k", "l"), and a
\* statusRequest of SET with an argument that is a bool
Requests ==
    { [by |-> "Ping",   fn |-> "status",  cmd |-> <<80, 73, 78, 71>>, args |-> <<>>],
      [by |-> "Quit",   fn |-> "status",  cmd |-> <<81, 85, 73, 84>>, args |-> <<>>],
      [by |-> "BGRewriteAOF", fn |-> "status",
       cmd |-> <<66, 71, 82, 69, 87, 82, 73, 84, 69, 65, 79, 70>>, args |-> <<>>],
      [by |-> "Set",    fn |-> "status",  cmd |-> <<83, 69, 84>>,
       args |-> <<StrArg(<<107>>), BytesArg(<<118>>)>>],
      [by |-> "Set",    fn |-> "status",  cmd |-> <<83, 69, 84>>,
       args |-> <<StrArg(<<107>>), BytesArg(<<118>>), StrArg(<<80, 88>>),
                  DurationArg(60000)>>],
      [by |-> "SetNX",  fn |-> "status",  cmd |-> <<83, 69, 84>>,
       args |-> <<StrArg(<<107>>), BytesArg(<<118>>), StrArg(<<78, 88>>)>>],
      [by |-> "SetXX",  fn |-> "status",  cmd |-> <<83, 69, 84>>,
       args |-> <<StrArg(<<107>>), BytesArg(<<118>>), StrArg(<<88, 88>>)>>],
      [by |-> "Decr",   fn |-> "integer", cmd |-> <<68, 69, 67, 82>>,
       args |-> <<StrArg(<<107>>)>>],
      [by |-> "MGet",   fn |-> "multi",   cmd |-> <<77, 71, 69, 84>>,
       args |-> <<StrArg(<<107>>), StrArg(<<108>>)>>],
      [by |-> "Select", fn |-> "status",  cmd |-> <<83, 69, 76, 69, 67, 84>>,
       args |-> <<IntArg(0)>>],
      [by |-> "Incr",   fn |-> "integer", cmd |-> <<73, 78, 67, 82>>,
       args |-> <<StrArg(<<107>>)>>],
      [by |-> "Get",    fn |-> "bulk",    cmd |-> <<71, 69, 84>>,
       args |-> <<StrArg(<<107>>)>>],
      [by |-> "statusRequest", fn |-> "status", cmd |-> <<83, 69, 84>>,
       args |-> <<StrArg(<<107>>), OtherArg, StrArg(<<118>>)>>] }

\* the comparison of the status that follows the statusRequest of a method:
\* that of Ping, that of Select, that of set, which Set, SetNX and SetXX go
\* through, or none
Comparing(by) ==
    IF by \in {"Ping", "Select"} THEN by
    ELSE IF by \in {"Set", "SetNX", "SetXX"} THEN "Set"
    ELSE "none"

ErrInvalidStatus == Err("ErrInvalidStatus")
okStatus   == <<79, 75>>
pongStatus == <<80, 79, 78, 71>>

VARIABLES
    idleConn,      \* Client.idleConn: the idle connections, oldest first
    maxIdleConn,   \* Client.maxIdleConn
    conns,         \* every connection dialed: [open, rd, w, by]
    callers,       \* the single-shot callers: Caller records
    returned,      \* the error the call that returned in the last step returned,
                   \* nil when none did
    pipe,          \* the Pipeline of the pipeline user
    tc,            \* the connection of connection_test.go: [w, buf, blen, rd]
    tq,            \* the bulk payloads the test wrote and has not read back
    tout           \* what the test's last call returned

vars == <<idleConn, maxIdleConn, conns, callers, returned, pipe, tc, tq, tout, memory>>
poolVars == <<idleConn, maxIdleConn, conns, callers, returned, pipe, memory>>
testVars == <<tc, tq, tout, memory>>

\* no Pipeline, and the zero value of a BulkReply
\* sent and ends are what the server's side of the Pipeline's connection
\* sees: the size of each Write the socket was given since the Pipeline was
\* made, and the offset in the bytes written at which each command ends;
\* arrived are the frames the reader of the connection has taken from the
\* socket since then, next is the index of the Reply the loop of Flush is
\* at, and again is whether the Flush called last was called on a Pipeline
\* whose Flush had returned before
NoPipeline == [st |-> "none", cn |-> 0, cli |-> FALSE, replies |-> <<>>,
               ret |-> [isnil |-> TRUE, err |-> Nil], sent |-> <<>>, ends |-> <<>>,
               next |-> 0, arrived |-> <<>>, again |-> FALSE]
NewBulkReply == [val |-> NilBytes, err |-> Nil]

\* the redisConnection of the tests: a buffer read and written, buf of blen bytes
TestBufLen == 24
TestConn(blen) == [w |-> <<>>, buf |-> <<>>, blen |-> blen, rd |-> <<>>]
NoOutput == [op |-> "none", val |-> NilBytes, i |-> I64(0), n |-> 0, marker |-> 0,
             vals |-> <<>>, err |-> Nil]

\* A caller: where it is (pc) and the connection it holds (cn, 0 for none).
\* While its reply is read: the read its request makes (fn), the comparison
\* that follows (by), the bytes of the reply that arrived before the read
\* had all it needs (part) and whether the reader has moved the unread ones
\* of them to the head of its buffer (slid).  From the return of fn
\* to the comparison Ping, Select and set make: the method, the error fn
\* returned (err), the status as readStatusBytes returned it (got), the
\* connection of whose reader's buffer that status is a slice (buf, 0 for
\* none), the index in the buffer at which the slice begins (off) and what
\* the slice shows now (status).
Caller(pc, cn) ==
    [pc |-> pc, cn |-> cn, by |-> "none", fn |-> "none", part |-> <<>>, slid |-> FALSE,
     err |-> Nil, got |-> NilBytes, status |-> NilBytes, buf |-> 0, off |-> 0]

\* NewClient
InitClient ==
    /\ idleConn = <<>>
    /\ maxIdleConn = DefaultMaxIdleConnections
    /\ conns = <<>>
    /\ callers = [k \in Callers |-> Caller("idle", 0)]
    /\ returned = Nil
    /\ pipe = NoPipeline

\* The payloads, keys and replies of the Client's specifications are of a
\* few bytes or given by the caller: no allocation there depends on the
\* machine, which is taken to be one with memory up to the user address
\* space of 2^47 bytes.
Init ==
    /\ InitClient
    /\ tc = TestConn(TestBufLen)
    /\ tq = <<>>
    /\ tout = NoOutput
    /\ memory = 47

\* SetMaxIdleConncetions
SetMaxIdleConncetions(maxIdle) ==
    /\ maxIdleConn' = maxIdle
    /\ returned' = Nil
    /\ UNCHANGED <<idleConn, conns, callers, pipe, testVars>>

\* newConnection: net.Dial succeeds (ok) or fails; the new connection's index
newConnection(ok) ==
    IF ok THEN [cn |-> Len(conns) + 1, err |-> Nil, dialed |-> TRUE]
    ELSE [cn |-> 0, err |-> ErrIO, dialed |-> FALSE]

\* a faulty popConnection: the connection handed out stays in the list
popConnectionKeepsIdle(idle, ok) ==
    IF Len(idle) = 0
    THEN [rc |-> newConnection(ok), idle |-> idle]
    ELSE [rc |-> [cn |-> idle[Len(idle)], err |-> Nil, dialed |-> FALSE], idle |-> idle]

\* a faulty popConnection: the connection idle for the longest is handed out
popConnectionTakesFirst(idle, ok) ==
    IF Len(idle) = 0
    THEN [rc |-> newConnection(ok), idle |-> idle]
    ELSE [rc |-> [cn |-> idle[1], err |-> Nil, dialed |-> FALSE], idle |-> Tail(idle)]

\* popConnection on the idle list: the connection, the error, the list left
popConnection(idle, ok) ==
    IF Len(idle) = 0
    THEN [rc |-> newConnection(ok), idle |-> idle]
    ELSE [rc |-> [cn |-> idle[Len(idle)], err |-> Nil, dialed |-> FALSE],
          idle |-> SubSeq(idle, 1, Len(idle) - 1)]

\* a faulty pushConnection: > for >=
pushConnectionOffByOne(idle, maxIdle, rc) ==
    IF Len(idle) > maxIdle
    THEN [idle |-> idle, closed |-> TRUE]
    ELSE [idle |-> Append(idle, rc), closed |-> FALSE]

\* pushConnection: the list left, and whether rc was closed instead
pushConnection(idle, maxIdle, rc) ==
    IF Len(idle) >= maxIdle
    THEN [idle |-> idle, closed |-> TRUE]
    ELSE [idle |-> Append(idle, rc), closed |-> FALSE]

\* a faulty test: only an error of the stream closes the connection
withConnectionClosesOnIOOnly(err) == err = ErrIO

\* the test of withConnection: whether the connection is closed, not pushed
withConnectionCloses(err) == err # Nil /\ ~IsErrReply(err)

\* a connection: whether its socket is open, the bytes received and not yet
\* read, the bytes in its writer, the function that closed it, and whether a
\* Write of the socket failed (the writer then keeps the error)
FreshConn == [open |-> TRUE, rd |-> <<>>, w |-> <<>>, by |-> "none", werr |-> FALSE]
\* a closed connection nothing refers to any more
DeadConn(by) == [open |-> FALSE, rd |-> <<>>, w |-> <<>>, by |-> by, werr |-> FALSE]

\* the write side of a connection as the write operations see it
WriteSide(c) == [w |-> c.w, buf |-> <<>>, blen |-> connectionBufferSize]

\* the loop of MGet: count elements are read with readBulkBytes, up to the
\* first that fails; vals are the elements read, the others are left nil
RECURSIVE readElements(_, _, _)
readElements(count, vals, s) ==
    IF count = 0 THEN [vals |-> vals, err |-> Nil, rest |-> s]
    ELSE Let(readBulkBytes(s), LAMBDA r :
             IF r.err # Nil THEN [vals |-> vals, err |-> r.err, rest |-> r.rest]
             ELSE readElements(count - 1, Append(vals, r.val), r.rest))

\* the reads of MGet: the header of the multi-bulk reply, make([][]byte, n),
\* which panics for an n that is negative or whose elements, of 24 bytes,
\* need more than 2^48 bytes, and ends the process when there is no memory
\* for them, and the elements.  A count from 2^30 on is more than the
\* elements a stream holds.
readMGet(s) ==
    Let(readI64(s), LAMBDA h :
        IF h.err # Nil THEN [n |-> h.n, vals |-> <<>>, err |-> h.err, rest |-> h.rest]
        ELSE IF h.marker # multiBulkReplyMarker
        THEN [n |-> h.n, vals |-> <<>>, err |-> ErrInvalidReplyMarker, rest |-> h.rest]
        ELSE Let(U64MulAdd(h.n, 24, 0), LAMBDA v :
            IF h.n[4] # 0 \/ ~(v[4] = 0 \/ v = <<0, 0, 0, 1>>)
            THEN [n |-> h.n, vals |-> <<>>, err |-> Panic, rest |-> h.rest]
            ELSE IF OutOfMemory(v)
            THEN [n |-> h.n, vals |-> <<>>, err |-> Fatal, rest |-> h.rest]
            ELSE Let(readElements(IF I64IsSmall(h.n) THEN I64Small(h.n)
                                  ELSE Len(h.rest) + 1, <<>>, h.rest), LAMBDA e :
                     [n |-> h.n, vals |-> e.vals, err |-> e.err, rest |-> e.rest])))

\* the reply read of each request
readReply(fn, s) ==
    CASE fn = "status"  -> readStatusBytes(s)
      [] fn = "integer" -> Let(readInteger(s), LAMBDA r :
                               [val |-> NilBytes, err |-> r.err, rest |-> r.rest])
      [] fn = "bulk"    -> readBulkBytes(s)
      [] fn = "multi"   -> Let(readMGet(s), LAMBDA r :
                               [val |-> NilBytes, err |-> r.err, rest |-> r.rest])

\* the methods that compare the status with a sentinel after statusRequest
\* has returned
SentinelMethods == {"Ping", "Select", "Set"}

\* what Ping, Select and set return for the status and the error
\* statusRequest returned; the other methods return the error as it is
sentinelError(by, status, err) ==
    IF err # Nil THEN err
    ELSE IF by = "Ping" /\ status # Bytes(pongStatus) THEN ErrInvalidStatus
    ELSE IF by = "Select" /\ status # Bytes(okStatus) THEN ErrInvalidStatus
    ELSE IF by = "Set" /\ ~status.null /\ status # Bytes(okStatus) THEN ErrInvalidStatus
    ELSE Nil

\* the function statusRequest, integerRequest, bulkRequest and MGet hand to
\* withConnection, as far as the flush: sendCommand, whose writes are those
\* MGet makes of its keys, and flush on connection c
requestWrite(c, rq, flushOK) ==
    Let(sendCommand(WriteSide(c), rq.cmd, rq.args), LAMBDA sc :
        IF sc.err # Nil
        THEN [val |-> NilBytes, err |-> sc.err, c |-> [c EXCEPT !.w = sc.c.w]]
        ELSE IF ~flushOK
        THEN [val |-> NilBytes, err |-> ErrIO, c |-> [c EXCEPT !.w = sc.c.w]]
        ELSE [val |-> NilBytes, err |-> Nil, c |-> [c EXCEPT !.w = <<>>]])

\* the callers after a read of the socket on connection cn has put the bytes
\* fill at the head of its reader's buffer: a status that is a slice of that
\* buffer shows the new bytes
Overwritten(cs, cn, fill) ==
    [k \in Callers |->
       IF cs[k].buf = cn
       THEN [cs[k] EXCEPT !.status =
               Bytes([j \in 1..Len(@.b) |->
                        IF cs[k].off + j <= Len(fill) THEN fill[cs[k].off + j]
                        ELSE @.b[j]])]
       ELSE cs[k]]

(***************************************************************************)
(* A single-shot request, step by step.  Acquire is popConnection, under   *)
(* the lock.  Send is sendCommand and flush and, when one of them failed,  *)
(* the close and the return.  Receive is one read of the socket by the     *)
(* reader of the connection, on which the goroutine has waited: a segment  *)
(* of the reply arrives, whole or in part, and when the read of the reply  *)
(* has all it needs fn returns and, on a fault, the connection is closed   *)
(* and withConnection returns.  Release is pushConnection, under the lock, *)
(* and the return of withConnection.  CheckStatus is the comparison Ping,  *)
(* Select and set make on the status, a slice of the buffer of the reader  *)
(* of a connection the caller no longer holds.  A caller whose fn panics   *)
(* keeps the connection: nothing closes or pushes it.  A connection in the *)
(* pool has nothing unread when a request on it begins.                    *)
(***************************************************************************)
Acquire(k, dialOK) ==
    /\ callers[k].pc = "idle"
    /\ Len(idleConn) # 0 => dialOK
    /\ (Len(idleConn) = 0 /\ dialOK) => Len(conns) < MaxConns
    /\ Let(popConnection(idleConn, dialOK), LAMBDA r :
           /\ idleConn' = r.idle
           /\ conns' = IF r.rc.dialed THEN Append(conns, FreshConn) ELSE conns
           /\ callers' = [callers EXCEPT ![k] =
                            IF r.rc.err # Nil THEN Caller("idle", 0)
                            ELSE Caller("holding", r.rc.cn)]
           /\ returned' = IF r.rc.err # Nil THEN r.rc.err ELSE Nil)
    /\ UNCHANGED <<maxIdleConn, pipe, testVars>>

\* what the caller is left with and the connection after fn returned f on
\* connection cn for the method by, off being the index in the reader's
\* buffer of the line it read, and whether withConnection returns at once
withConnectionEnd(cn, by, off, f) ==
    IF f.err \in {Panic, Fatal}
    THEN [caller |-> Caller("panicked", cn), returns |-> FALSE, conn |-> f.c]
    ELSE IF withConnectionCloses(f.err)
    THEN [caller |-> Caller("idle", 0), returns |-> TRUE,
          conn |-> DeadConn("withConnection")]
    ELSE [caller |-> IF by \in SentinelMethods
                     THEN [Caller("pushing", cn) EXCEPT
                             !.by = by, !.err = f.err, !.got = f.val,
                             !.status = f.val, !.buf = IF f.val.null THEN 0 ELSE cn,
                             !.off = IF f.val.null THEN 0 ELSE off]
                     ELSE [Caller("pushing", cn) EXCEPT !.err = f.err],
          returns |-> FALSE, conn |-> f.c]

\* withConnection: fn(c) as far as the flush, and c.nc.Close() and the
\* return when sendCommand or flush failed
Send(k, rq, flushOK) ==
    /\ callers[k].pc = "holding"
    /\ (\E j \in 1..Len(rq.args) : rq.args[j].kind = "other") => flushOK
    /\ Let(requestWrite(conns[callers[k].cn], rq, flushOK), LAMBDA f :
           IF f.err = Nil
           THEN /\ callers' = [callers EXCEPT ![k].pc = "reading", ![k].fn = rq.fn,
                                               ![k].by = Comparing(rq.by)]
                /\ conns' = [conns EXCEPT ![callers[k].cn] = f.c]
                /\ returned' = Nil
           ELSE Let(withConnectionEnd(callers[k].cn, Comparing(rq.by), 0, f), LAMBDA e :
                    /\ callers' = [callers EXCEPT ![k] = e.caller]
                    /\ conns' = [conns EXCEPT ![callers[k].cn] = e.conn]
                    /\ returned' = IF e.returns THEN f.err ELSE Nil))
    /\ UNCHANGED <<idleConn, maxIdleConn, pipe, testVars>>

\* withConnection: fn(c) in the read of the reply.  The next n bytes of the
\* frame the server answers with arrive.  A reply comes whole or in two
\* segments, the first of no more than MaxCut bytes and ending inside the
\* reply's first line; with the second the read has all it needs, fn
\* returns and, on a fault, c.nc.Close() and the return follow.
\* A read of the socket puts the bytes read at the head of the reader's
\* buffer when nothing is unread, and after the unread bytes otherwise.  A
\* reply of which less than its first line has arrived has had its marker
\* taken by ReadByte, and ReadLine, before it reads the socket again, moves
\* the unread bytes of the line to the head of the buffer (Slide), which
\* are none when the marker is all that arrived: the second segment arrives
\* once it has.  The status line begins at index 1
\* of the buffer when the reply came whole and at index 0 when it came in
\* two segments.
Receive(k, reply, n) ==
    /\ callers[k].pc = "reading"
    /\ n >= 1
    /\ callers[k].part # <<>> => callers[k].slid
    /\ Len(callers[k].part) + n <= Len(EncodeReply(reply))
    /\ callers[k].part = SubSeq(EncodeReply(reply), 1, Len(callers[k].part))
    /\ Len(callers[k].part) + n < Len(EncodeReply(reply))
          => /\ callers[k].part = <<>>
             /\ n <= MaxCut
             /\ \A j \in 1..n : EncodeReply(reply)[j] # 10
    /\ Let(callers[k], LAMBDA c :
        Let(SubSeq(EncodeReply(reply), Len(c.part) + 1, Len(c.part) + n), LAMBDA seg :
        Let(Overwritten(callers, c.cn,
                        (IF c.part = <<>> THEN <<>> ELSE Tail(c.part)) \o seg), LAMBDA cs :
            IF Len(c.part) + n < Len(EncodeReply(reply))
            THEN /\ callers' = [cs EXCEPT ![k].part = seg, ![k].slid = (Len(seg) = 1)]
                 /\ conns' = conns
                 /\ returned' = Nil
            ELSE Let(readReply(c.fn, conns[c.cn].rd \o c.part \o seg), LAMBDA r :
                 Let(withConnectionEnd(c.cn, c.by, IF c.part = <<>> THEN 1 ELSE 0,
                                       [val |-> r.val, err |-> r.err,
                                        c |-> [conns[c.cn] EXCEPT !.rd = r.rest]]),
                     LAMBDA e :
                     /\ callers' = [cs EXCEPT ![k] = e.caller]
                     /\ conns' = [conns EXCEPT ![c.cn] = e.conn]
                     /\ returned' = IF e.returns THEN r.err ELSE Nil)))))
    /\ UNCHANGED <<idleConn, maxIdleConn, pipe, testVars>>

\* withConnection: fn(c) between the two segments of a reply.  ReadByte has
\* taken the marker from the first segment, ReadLine has found no end of
\* line in the rest of it, and the reader copies that rest to the head of
\* its buffer before it reads the socket again.
Slide(k) ==
    /\ callers[k].pc = "reading"
    /\ callers[k].part # <<>>
    /\ ~callers[k].slid
    /\ callers' = [Overwritten(callers, callers[k].cn, Tail(callers[k].part))
                      EXCEPT ![k].slid = TRUE]
    /\ returned' = Nil
    /\ UNCHANGED <<idleConn, maxIdleConn, conns, pipe, testVars>>

\* what caller c is left with once pushConnection has returned: withConnection
\* returns c.err, and Ping, Select and set go on to the comparison when it
\* is nil
pushed(c) ==
    IF c.by \in SentinelMethods /\ c.err = Nil
    THEN [caller |-> [c EXCEPT !.pc = "checking", !.cn = 0], returns |-> FALSE]
    ELSE [caller |-> Caller("idle", 0), returns |-> TRUE]

\* withConnection: cli.pushConnection(c) and the return
Release(k) ==
    /\ callers[k].pc = "pushing"
    /\ Let(pushConnection(idleConn, maxIdleConn, callers[k].cn), LAMBDA push :
           /\ idleConn' = push.idle
           /\ conns' = IF push.closed
                       THEN [conns EXCEPT ![callers[k].cn] = DeadConn("pushConnection")]
                       ELSE conns)
    /\ callers' = [callers EXCEPT ![k] = pushed(callers[k]).caller]
    /\ returned' = IF pushed(callers[k]).returns THEN callers[k].err ELSE Nil
    /\ UNCHANGED <<maxIdleConn, pipe, testVars>>

\* Ping, Select, set: bytes.Equal(status, sentinel) and the return
CheckStatus(k) ==
    /\ callers[k].pc = "checking"
    /\ returned' = sentinelError(callers[k].by, callers[k].status, callers[k].err)
    /\ callers' = [callers EXCEPT ![k] = Caller("idle", 0)]
    /\ UNCHANGED <<idleConn, maxIdleConn, conns, pipe, testVars>>

(***************************************************************************)
(* Reply holders and pipeline.go                                           *)
(***************************************************************************)
\* a faulty BulkReply.read: r.val = v is missing
BulkReplyReadDropsValue(r, s) ==
    Let(readBulkBytes(s), LAMBDA x :
        IF x.err # Nil /\ ~IsErrReply(x.err)
        THEN [reply |-> r, err |-> x.err, rest |-> x.rest]
        ELSE [reply |-> [r EXCEPT !.err = x.err], err |-> Nil, rest |-> x.rest])

\* BulkReply.read
BulkReplyRead(r, s) ==
    Let(readBulkBytes(s), LAMBDA x :
        IF x.err # Nil /\ ~IsErrReply(x.err)
        THEN [reply |-> r, err |-> x.err, rest |-> x.rest]
        ELSE [reply |-> [val |-> x.val, err |-> x.err], err |-> Nil, rest |-> x.rest])

\* the connections once the closed connection cn of a failed Pipeline is no
\* longer referred to (cn = 0: there is none)
Unreferenced(cs, cn) == IF cn = 0 THEN cs ELSE [cs EXCEPT ![cn] = DeadConn(@.by)]

\* Client.Pipeline: one connection is popped and bound to a new Pipeline,
\* which replaces the one the pipeline user had
PipelineOpen(dialOK) ==
    /\ pipe.st \in {"none", "flushed", "failed"}
    /\ Len(idleConn) # 0 => dialOK
    /\ (Len(idleConn) = 0 /\ dialOK) => Len(conns) < MaxConns
    /\ Let(popConnection(idleConn, dialOK), LAMBDA r :
           /\ idleConn' = r.idle
           /\ conns' = IF r.rc.dialed THEN Append(Unreferenced(conns, pipe.cn), FreshConn)
                       ELSE Unreferenced(conns, pipe.cn)
           /\ pipe' = IF r.rc.err # Nil THEN NoPipeline
                      ELSE [NoPipeline EXCEPT !.st = "open", !.cn = r.rc.cn, !.cli = TRUE])
    /\ returned' = Nil
    /\ UNCHANGED <<maxIdleConn, callers, testVars>>

\* the sum of a sequence of numbers
RECURSIVE SumSeq(_)
SumSeq(q) == IF q = <<>> THEN 0 ELSE Head(q) + SumSeq(Tail(q))

\* the bufio.Writer of connection c after writes to it: stream is what it
\* held followed by what was written.  While the bytes do not fit its buffer
\* the writer fills the buffer and writes it to the socket; ok is whether the
\* socket takes what it is given.  A writer whose Write failed keeps the
\* error and takes nothing more.  sent: the sizes of the Writes of the socket.
bufioWrite(c, stream, ok) ==
    IF c.werr THEN [c |-> c, sent |-> <<>>]
    ELSE IF Len(stream) <= WriterSize THEN [c |-> [c EXCEPT !.w = stream], sent |-> <<>>]
    ELSE IF ok
    THEN Let((Len(stream) - 1) \div WriterSize, LAMBDA n :
             [c |-> [c EXCEPT !.w = SubSeq(stream, n * WriterSize + 1, Len(stream))],
              sent |-> [j \in 1..n |-> WriterSize]])
    ELSE [c |-> [c EXCEPT !.w = SubSeq(stream, 1, WriterSize), !.werr = TRUE],
          sent |-> <<WriterSize>>]

\* redisConnection.flush: what the writer holds is written to the socket
bufioFlush(c, ok) ==
    IF c.werr \/ c.w = <<>> THEN [c |-> c, sent |-> <<>>]
    ELSE IF ok THEN [c |-> [c EXCEPT !.w = <<>>], sent |-> <<Len(c.w)>>]
    ELSE [c |-> [c EXCEPT !.werr = TRUE], sent |-> <<Len(c.w)>>]

\* the bytes the socket has taken, a Write that failed taking none
Delivered(sent, werr) ==
    SumSeq(sent) - (IF werr /\ sent # <<>> THEN sent[Len(sent)] ELSE 0)

\* sendCommand("GET", key) on the connection of the Pipeline, after the Reply
\* is appended; its error is dropped
GetOn(key, spillOK) ==
    Let(sendCommand(WriteSide(conns[pipe.cn]), <<71, 69, 84>>, <<StrArg(key)>>).c.w,
        LAMBDA stream :
        Let(bufioWrite(conns[pipe.cn], stream, spillOK), LAMBDA b :
            /\ b.sent = <<>> => spillOK
            /\ (b.sent # <<>> /\ ~conns[pipe.cn].open) => ~spillOK
            /\ conns' = [conns EXCEPT ![pipe.cn] = b.c]
            /\ pipe' = [pipe EXCEPT
                          !.replies = Append(@, NewBulkReply),
                          !.sent = @ \o b.sent,
                          !.ends = Append(@, (IF @ = <<>> THEN 0 ELSE @[Len(@)])
                                               + Len(stream) - Len(conns[pipe.cn].w))]))

\* Pipeline.Get: the Reply is appended and the command written, not flushed
PipelineGet(key, spillOK) ==
    /\ pipe.st = "open"
    /\ Len(pipe.replies) < MaxBatch
    /\ GetOn(key, spillOK)
    /\ returned' = Nil
    /\ UNCHANGED <<idleConn, maxIdleConn, callers, testVars>>

\* Pipeline.Flush: p.cn.flush(), whose error is dropped, b being what it
\* left of the connection and gave the socket, and again whether Flush had
\* returned before on this Pipeline; the loop over the Replies is next and,
\* with no Reply, pushConnection
FlushWrite(b, flushOK, again) ==
    /\ b.sent = <<>> => flushOK
    /\ (b.sent # <<>> /\ ~conns[pipe.cn].open) => ~flushOK
    /\ conns' = [conns EXCEPT ![pipe.cn] = b.c]
    /\ pipe' = [pipe EXCEPT !.st = IF pipe.replies = <<>> THEN "pushing" ELSE "reading",
                            !.sent = @ \o b.sent, !.next = 1, !.again = again]

\* Pipeline.Flush as far as the loop: p.cn.flush()
PipelineFlush(flushOK) ==
    /\ pipe.st = "open"
    /\ FlushWrite(bufioFlush(conns[pipe.cn], flushOK), flushOK, FALSE)
    /\ returned' = Nil
    /\ UNCHANGED <<idleConn, maxIdleConn, callers, testVars>>

\* the frames the server still has to send on the connection of the
\* Pipeline: one for each command it has received whole, less those that
\* have arrived; none on a closed connection
Awaited ==
    IF ~conns[pipe.cn].open THEN 0
    ELSE Cardinality({j \in 1..Len(pipe.ends) :
                        pipe.ends[j] <= Delivered(pipe.sent, conns[pipe.cn].werr)})
         - Len(pipe.arrived)

\* Pipeline.Flush, one turn of its loop: r.read(p.cn) for the Reply at next.
\* The read takes what the reader holds unread.  When it holds nothing the
\* read waits for the socket: the frames fs arrive, one or more of those
\* the server still has to send, each whole, or the read fails when there
\* is none to come.  Frames that arrive together are all in the reader's
\* buffer; those that come later are not read by a Flush that has failed.
\* When the read panics Flush does not return.  On an error the connection
\* is closed and Flush returns nil and the error; otherwise the Reply is
\* resolved and the next Reply or, after the last, pushConnection is next.
FlushRead(fs) ==
    /\ pipe.st = "reading"
    /\ IF conns[pipe.cn].rd = <<>> /\ Awaited > 0
       THEN Len(fs) \in 1..Awaited
       ELSE fs = <<>>
    /\ Let(BulkReplyRead(pipe.replies[pipe.next], conns[pipe.cn].rd \o EncodeReplies(fs)),
           LAMBDA x :
           IF x.err \in {Panic, Fatal}
           THEN /\ pipe' = [pipe EXCEPT !.st = "panicked", !.arrived = @ \o fs]
                /\ conns' = [conns EXCEPT ![pipe.cn].rd = x.rest]
           ELSE IF x.err # Nil
           THEN /\ pipe' = [pipe EXCEPT !.st = "failed", !.arrived = @ \o fs,
                                        !.ret = [isnil |-> TRUE, err |-> x.err]]
                /\ conns' = [conns EXCEPT ![pipe.cn].rd = x.rest,
                                          ![pipe.cn].open = FALSE,
                                          ![pipe.cn].by = "Flush"]
           ELSE /\ pipe' = [pipe EXCEPT
                              !.st = IF pipe.next = Len(pipe.replies) THEN "pushing"
                                     ELSE "reading",
                              !.arrived = @ \o fs,
                              !.replies[pipe.next] = x.reply,
                              !.next = @ + 1]
                /\ conns' = [conns EXCEPT ![pipe.cn].rd = x.rest])
    /\ callers' = IF fs = <<>> THEN callers
                  ELSE Overwritten(callers, pipe.cn, EncodeReplies(fs))
    /\ returned' = Nil
    /\ UNCHANGED <<idleConn, maxIdleConn, testVars>>

\* Pipeline.Flush: cli.pushConnection(p.cn), under the lock, p.cn = nil,
\* p.cli = nil and the return of the Replies
FlushPush ==
    /\ pipe.st = "pushing"
    /\ Let(pushConnection(idleConn, maxIdleConn, pipe.cn), LAMBDA push :
           /\ idleConn' = push.idle
           /\ conns' = IF push.closed
                       THEN [conns EXCEPT ![pipe.cn] = DeadConn("pushConnection")]
                       ELSE conns)
    /\ pipe' = [pipe EXCEPT !.st = "flushed", !.cn = 0, !.cli = FALSE,
                            !.ret = [isnil |-> FALSE, err |-> Nil]]
    /\ returned' = Nil
    /\ UNCHANGED <<maxIdleConn, callers, testVars>>

\* Pipeline.Get on a Pipeline whose Flush has returned.  After a Flush that
\* returned nil p.cn is nil and sendCommand panics when it dereferences it;
\* after a Flush that returned an error p.cn is still the closed connection.
StaleGet(key, spillOK) ==
    /\ pipe.st \in {"flushed", "failed"}
    /\ Len(pipe.replies) < MaxBatch
    /\ IF pipe.cn = 0
       THEN /\ spillOK
            /\ pipe' = [pipe EXCEPT !.st = "panicked", !.replies = Append(@, NewBulkReply)]
            /\ conns' = conns
       ELSE GetOn(key, spillOK)
    /\ returned' = Nil
    /\ UNCHANGED <<idleConn, maxIdleConn, callers, testVars>>

\* Pipeline.Flush on a Pipeline whose Flush has returned: flush panics on a
\* nil p.cn; on the closed connection no Write succeeds, and the loop reads
\* the Replies again, from the first
StaleFlush ==
    /\ pipe.st \in {"flushed", "failed"}
    /\ IF pipe.cn = 0
       THEN /\ pipe' = [pipe EXCEPT !.st = "panicked", !.again = TRUE]
            /\ conns' = conns
       ELSE Let(bufioFlush(conns[pipe.cn], FALSE), LAMBDA b :
                FlushWrite(b, b.sent = <<>>, TRUE))
    /\ returned' = Nil
    /\ UNCHANGED <<idleConn, maxIdleConn, callers, testVars>>

\* the frames that may arrive together: up to MaxBatch frames of F
Arrivals(F) == UNION {[1..n -> F] : n \in 0..MaxBatch}

(***************************************************************************)
(* The Client in concurrent use: goroutines making single-shot requests,   *)
(* SetMaxIdleConncetions called at any time with any maximum, and a        *)
(* pipeline user who takes a connection for a Pipeline and flushes it.     *)
(***************************************************************************)
Next ==
    \/ \E m \in (-1)..MaxIdleCfg : SetMaxIdleConncetions(m)
    \/ \E k \in Callers, dialOK \in BOOLEAN : Acquire(k, dialOK)
    \/ \E k \in Callers, rq \in Requests, flushOK \in BOOLEAN : Send(k, rq, flushOK)
    \/ \E k \in Callers, reply \in RequestReplies :
          Receive(k, reply, Len(EncodeReply(reply)))
    \/ \E k \in Callers : Release(k)
    \/ \E k \in Callers : CheckStatus(k)
    \/ \E dialOK \in BOOLEAN : PipelineOpen(dialOK)
    \/ PipelineFlush(TRUE)
    \/ FlushPush

Spec == Init /\ [][Next]_vars

(***************************************************************************)
(* The callers alone, each reply arriving in one segment or in two.        *)
(***************************************************************************)
NextSegments ==
    \/ \E k \in Callers, dialOK \in BOOLEAN : Acquire(k, dialOK)
    \/ \E k \in Callers, rq \in Requests, flushOK \in BOOLEAN : Send(k, rq, flushOK)
    \/ \E k \in Callers, reply \in RequestReplies :
          \E n \in 1..Len(EncodeReply(reply)) : Receive(k, reply, n)
    \/ \E k \in Callers : Slide(k)
    \/ \E k \in Callers : Release(k)
    \/ \E k \in Callers : CheckStatus(k)

SpecSegments == Init /\ [][NextSegments]_vars

(***************************************************************************)
(* The pipeline user alone, its Gets of a short key, the server answering  *)
(* each command with any frame but a status, the frames arriving together  *)
(* or apart.                                                               *)
(***************************************************************************)
NextBatch ==
    \/ \E m \in (-1)..MaxIdleCfg : SetMaxIdleConncetions(m)
    \/ \E dialOK \in BOOLEAN : PipelineOpen(dialOK)
    \/ PipelineGet(<<107>>, TRUE)
    \/ \E flushOK \in BOOLEAN : PipelineFlush(flushOK)
    \/ \E fs \in Arrivals(ServerReplies \ StatusReplies) : FlushRead(fs)
    \/ FlushPush

SpecBatch == Init /\ [][NextBatch]_vars

(***************************************************************************)
(* The pipeline user alone, with keys long enough for a batch to outgrow   *)
(* the writer's buffer, the server answering with any frame, an array      *)
(* included, and Get and Flush called again after Flush has returned.      *)
(***************************************************************************)
\* a key with which one GET just fits the writer's buffer and two do not
PipelineKeys == {<<107>>, [j \in 1..(WriterSize - 24) |-> 107]}

ArrayReplies == {Reply("array", <<97, 98>>),              \* "*1", "$2", "ab"
                 Reply("array2", <<97, 98>>)}             \* "*2", "$2", "ab", "$2", "ab"
PipelineFrames == (ServerReplies \ StatusReplies) \cup ArrayReplies

NextPipeline ==
    \/ \E m \in (-1)..MaxIdleCfg : SetMaxIdleConncetions(m)
    \/ \E dialOK \in BOOLEAN : PipelineOpen(dialOK)
    \/ \E key \in PipelineKeys, spillOK \in BOOLEAN : PipelineGet(key, spillOK)
    \/ \E flushOK \in BOOLEAN : PipelineFlush(flushOK)
    \/ \E fs \in Arrivals(PipelineFrames) : FlushRead(fs)
    \/ FlushPush
    \/ \E key \in PipelineKeys, spillOK \in BOOLEAN : StaleGet(key, spillOK)
    \/ StaleFlush

SpecPipeline == Init /\ [][NextPipeline]_vars

(***************************************************************************)
(* connection_test.go: one connection whose reader and writer share a      *)
(* buffer, so that what is flushed is what is read back.                   *)
(***************************************************************************)
\* by, st, the empty payload, and 30 bytes with a CR LF inside
LongPayload == [j \in 1..30 |-> IF j = 7 THEN 13 ELSE IF j = 8 THEN 10 ELSE 64 + j]
TestPayloads == {<<1, 2, 3, 4>>, <<102, 111, 111>>, <<>>, LongPayload}

TestWriteBulkString(v) ==
    /\ Len(tq) < MaxQueue
    /\ tc' = writeBulkString(tc, v)
    /\ tq' = Append(tq, v)
    /\ tout' = [NoOutput EXCEPT !.op = "write"]
    /\ UNCHANGED poolVars

TestWriteBulkBytes(v) ==
    /\ Len(tq) < MaxQueue
    /\ tc' = writeBulkBytes(tc, OwnBytes(v))
    /\ tq' = Append(tq, v)
    /\ tout' = [NoOutput EXCEPT !.op = "write"]
    /\ UNCHANGED poolVars

\* c.rw.Flush()
TestFlush ==
    /\ tc.w # <<>>
    /\ tc' = [tc EXCEPT !.rd = @ \o tc.w, !.w = <<>>]
    /\ UNCHANGED <<tq, tout, poolVars>>

TestReadBulkBytes ==
    /\ tq # <<>>
    /\ tc.w = <<>>
    /\ Let(readBulkBytes(tc.rd), LAMBDA r :
           /\ tc' = [tc EXCEPT !.rd = r.rest]
           /\ tout' = [NoOutput EXCEPT !.op = "read", !.val = r.val, !.err = r.err])
    /\ tq' = Tail(tq)
    /\ UNCHANGED poolVars

TestReadBulkString ==
    /\ tq # <<>>
    /\ tc.w = <<>>
    /\ Let(readBulkString(tc.rd, tc.blen), LAMBDA r :
           /\ tc' = [tc EXCEPT !.rd = r.rest, !.buf = Overlay(r.buf, @)]
           /\ tout' = [NoOutput EXCEPT !.op = "read", !.val = Bytes(r.val), !.err = r.err])
    /\ tq' = Tail(tq)
    /\ UNCHANGED poolVars

\* sendCommand on the test connection; what it wrote is taken from the writer
TestCommands == {<<71, 69, 84>>, <<83, 69, 76, 69, 67, 84>>}      \* GET, SELECT
TestArgLists ==
    { <<>>,
      <<StrArg(<<107>>)>>,
      <<StrArg(<<107>>), BytesArg(<<1, 2>>)>>,
      <<IntArg(0)>>,
      <<IntArg(1)>>,
      <<StrArg(<<107>>), Int64Arg(1234)>>,
      <<DurationArg(-5), StrArg(<<107>>)>>,
      <<StrArg(<<107>>), OtherArg, IntArg(1)>> }

TestSendCommand(cmd, args) ==
    /\ tq = <<>> /\ tc.w = <<>> /\ tc.rd = <<>>
    /\ Let(sendCommand(tc, cmd, args), LAMBDA sc :
           /\ tc' = [sc.c EXCEPT !.w = <<>>]
           /\ tout' = [NoOutput EXCEPT !.op = "send", !.val = Bytes(sc.c.w), !.err = sc.err])
    /\ UNCHANGED <<tq, poolVars>>

\* TestItob64, TestBtoi64: the integers, the buffer lengths, the numerals
TestInts ==
    { I64(0), I64(1), I64(-1), I64(9), I64(10), I64(99), I64(100), I64(-100),
      I64(1234), I64(-1234), <<0, 0, 1, 0>>, MinInt64, MaxInt64 }
TestNumerals ==
    { <<>>, <<49, 50, 51, 81>>, <<45>>, <<49, 50, 51>>, <<45, 49, 50, 51>>,
      \* "0", "-0", "007", "1-2", "12 ", "+5"
      <<48>>, <<45, 48>>, <<48, 48, 55>>, <<49, 45, 50>>, <<49, 50, 32>>, <<43, 53>>,
      \* "9223372036854775807", "9223372036854775808", "-9223372036854775809"
      <<57, 50, 50, 51, 51, 55, 50, 48, 51, 54, 56, 53, 52, 55, 55, 53, 56, 48, 55>>,
      <<57, 50, 50, 51, 51, 55, 50, 48, 51, 54, 56, 53, 52, 55, 55, 53, 56, 48, 56>>,
      <<45, 57, 50, 50, 51, 51, 55, 50, 48, 51, 54, 56, 53, 52, 55, 55, 53, 56, 48, 57>>,
      \* "18446744073709551616", "99999999999999999999"
      <<49, 56, 52, 52, 54, 55, 52, 52, 48, 55, 51, 55, 48, 57, 53, 53, 49, 54, 49, 54>>,
      <<57, 57, 57, 57, 57, 57, 57, 57, 57, 57, 57, 57, 57, 57, 57, 57, 57, 57, 57, 57>> }

\* TestItob64 and TestBtoi64 use no connection: they run beside a fresh one
TestItob64(i, n) ==
    /\ tq = <<>> /\ tc = TestConn(tc.blen)
    /\ tout' = [NoOutput EXCEPT !.op = "itob64", !.val = Bytes(itob64(i, n)), !.i = i, !.n = n]
    /\ UNCHANGED <<tc, tq, poolVars>>

\* btoi64 of a numeral, or of what itob64 just returned
TestBtoi64(b) ==
    /\ tq = <<>> /\ tc = TestConn(tc.blen)
    /\ (b \in TestNumerals \/ (tout.op = "itob64" /\ b = tout.val.b))
    /\ Let(btoi64(b), LAMBDA r :
           tout' = [NoOutput EXCEPT !.op = "btoi64", !.val = Bytes(b), !.i = r.v, !.err = r.err])
    /\ UNCHANGED <<tc, tq, poolVars>>

InitCodec ==
    /\ InitClient
    /\ tc \in {TestConn(TestBufLen), TestConn(connectionBufferSize)}
    /\ tq = <<>>
    /\ tout = NoOutput
    /\ memory = 47

NextCodec ==
    \/ \E v \in TestPayloads : TestWriteBulkString(v)
    \/ \E v \in TestPayloads : TestWriteBulkBytes(v)
    \/ TestFlush
    \/ TestReadBulkBytes
    \/ TestReadBulkString
    \/ \E cmd \in TestCommands, args \in TestArgLists : TestSendCommand(cmd, args)
    \/ \E i \in TestInts, n \in {0, 1, 2, TestBufLen, 32} : TestItob64(i, n)
    \/ \E b \in TestNumerals \cup {tout.val.b} : TestBtoi64(b)

SpecCodec == InitCodec /\ [][NextCodec]_vars

(***************************************************************************)
(* connection.go: the reads applied to what a peer may send.  The stream   *)
(* of the test connection is given a reply frame, well formed or not, and  *)
(* one of the reads is run on it.                                          *)
(***************************************************************************)
\* '+', '-', ':', '$', '*' and a byte that is no marker, '!'
WireMarkers == {statusReplyMarker, errorReplyMarker, integerReplyMarker, bulkReplyMarker,
                multiBulkReplyMarker, 33}
\* "-1", "-5", "7", "2", "0", "x", "", "OK", "PONG", "E x", "ERR"
WireLines ==
    { <<45, 49>>, <<45, 53>>, <<55>>, <<50>>, <<48>>, <<120>>, <<>>, <<79, 75>>,
      <<80, 79, 78, 71>>, <<69, 32, 120>>, <<69, 82, 82>> }
\* lengths no payload follows: "1073741824" (2^30), for which there is
\* memory; "10000000000000", for which as many bytes there is memory and as
\* many elements of a [][]byte there is not; "140737488355326" (2^47 - 2) and "281474976710654" (2^48 - 2),
\* which make takes and there is no memory for; "281474976710655" and
\* "9223372036854775807", which make does not take
WireBigLengths ==
    { <<49, 48, 55, 51, 55, 52, 49, 56, 50, 52>>,
      <<49, 48, 48, 48, 48, 48, 48, 48, 48, 48, 48, 48, 48, 48>>,
      <<49, 52, 48, 55, 51, 55, 52, 56, 56, 51, 53, 53, 51, 50, 54>>,
      <<50, 56, 49, 52, 55, 52, 57, 55, 54, 55, 49, 48, 54, 53, 52>>,
      <<50, 56, 49, 52, 55, 52, 57, 55, 54, 55, 49, 48, 54, 53, 53>>,
      <<57, 50, 50, 51, 51, 55, 50, 48, 51, 54, 56, 53, 52, 55, 55, 53, 56, 48, 55>> }
\* the replies read are the lines with each marker and trailer, the long
\* line, the big lengths as the length of a bulk and the count of a
\* multi-bulk, the multi-bulk replies, "*2" followed by one element, by an
\* error and an element, by an element and an error, by a null and an
\* element, and streams that end early
\* what follows the line: nothing, or "ab\r\n"
WireTrailers == {<<>>, <<97, 98, 13, 10>>}
\* a line that fills the read buffer before its terminator
WireLongLine == [j \in 1..ReaderSize |-> 97]
WireStreams ==
    {<<m>> \o l \o eol \o t : m \in WireMarkers, l \in WireLines, t \in WireTrailers}
    \cup {<<m>> \o WireLongLine \o eol : m \in WireMarkers}
    \cup {<<m>> \o l \o eol : m \in {bulkReplyMarker, multiBulkReplyMarker},
                                l \in WireBigLengths}
    \cup {EncodeReply(r) : r \in ArrayReplies}
    \cup {<<multiBulkReplyMarker, 50>> \o eol \o EncodeReplies(rs) :
             rs \in { <<Reply("bulk", <<97, 98>>)>>,
                      <<Reply("error", <<69, 32, 120>>), Reply("bulk", <<97, 98>>)>>,
                      <<Reply("bulk", <<97, 98>>), Reply("error", <<69, 32, 120>>)>>,
                      <<Reply("null", <<>>), Reply("bulk", <<97, 98>>)>> }}
    \cup {<<>>, <<integerReplyMarker>>, <<integerReplyMarker, 55>>}

\* the peer's bytes arrive on a connection with nothing unread
WireFeed(s) ==
    /\ tc.rd = <<>>
    /\ tc' = [tc EXCEPT !.rd = s]
    /\ tout' = [NoOutput EXCEPT !.op = "feed"]
    /\ UNCHANGED <<tq, poolVars>>

\* a read may run once bytes were fed, on what is unread
WireReadable == tout.op = "feed" \/ tc.rd # <<>>

WireReadI64 ==
    /\ WireReadable
    /\ Let(readI64(tc.rd), LAMBDA r :
           /\ tc' = [tc EXCEPT !.rd = r.rest]
           /\ tout' = [NoOutput EXCEPT !.op = "readI64", !.i = r.n, !.marker = r.marker,
                                       !.err = r.err])
    /\ UNCHANGED <<tq, poolVars>>

WireReadInteger ==
    /\ WireReadable
    /\ Let(readInteger(tc.rd), LAMBDA r :
           /\ tc' = [tc EXCEPT !.rd = r.rest]
           /\ tout' = [NoOutput EXCEPT !.op = "readInteger", !.i = r.i, !.err = r.err])
    /\ UNCHANGED <<tq, poolVars>>

WireReadArgumentCount ==
    /\ WireReadable
    /\ Let(readArgumentCount(tc.rd), LAMBDA r :
           /\ tc' = [tc EXCEPT !.rd = r.rest]
           /\ tout' = [NoOutput EXCEPT !.op = "readArgumentCount", !.i = r.i, !.err = r.err])
    /\ UNCHANGED <<tq, poolVars>>

WireReadBulkBytes ==
    /\ WireReadable
    /\ Let(readBulkBytes(tc.rd), LAMBDA r :
           /\ tc' = [tc EXCEPT !.rd = r.rest]
           /\ tout' = [NoOutput EXCEPT !.op = "readBulkBytes", !.val = r.val, !.err = r.err])
    /\ UNCHANGED <<tq, poolVars>>

WireReadBulkString ==
    /\ WireReadable
    /\ Let(readBulkString(tc.rd, tc.blen), LAMBDA r :
           /\ tc' = [tc EXCEPT !.rd = r.rest, !.buf = Overlay(r.buf, @)]
           /\ tout' = [NoOutput EXCEPT !.op = "readBulkString", !.val = Bytes(r.val),
                                       !.err = r.err])
    /\ UNCHANGED <<tq, poolVars>>

WireReadStatusBytes ==
    /\ WireReadable
    /\ Let(readStatusBytes(tc.rd), LAMBDA r :
           /\ tc' = [tc EXCEPT !.rd = r.rest]
           /\ tout' = [NoOutput EXCEPT !.op = "readStatusBytes", !.val = r.val,
                                       !.err = r.err])
    /\ UNCHANGED <<tq, poolVars>>

\* the reads MGet makes of its reply
WireReadMGet ==
    /\ WireReadable
    /\ Let(readMGet(tc.rd), LAMBDA r :
           /\ tc' = [tc EXCEPT !.rd = r.rest]
           /\ tout' = [NoOutput EXCEPT !.op = "MGet", !.i = r.n, !.vals = r.vals,
                                       !.err = r.err])
    /\ UNCHANGED <<tq, poolVars>>

\* The reads run on a machine with 8 KiB for an allocation, which the two
\* buffers of connectionBufferSize bytes of a connection take, on one with
\* as much as the user address space of 2^47 bytes, and on one with as much
\* as the 2^48 bytes the runtime allocates at most.
InitWire ==
    /\ InitClient
    /\ tc = TestConn(TestBufLen)
    /\ tq = <<>>
    /\ tout = NoOutput
    /\ memory \in {13, 47, 48}

NextWire ==
    \/ \E s \in WireStreams : WireFeed(s)
    \/ WireReadI64
    \/ WireReadInteger
    \/ WireReadArgumentCount
    \/ WireReadBulkBytes
    \/ WireReadBulkString
    \/ WireReadStatusBytes
    \/ WireReadMGet

SpecWire == InitWire /\ [][NextWire]_vars

(***************************************************************************)
(* client.go: popConnection and pushConnection statement by statement.     *)
(* idleConnLock is held by the goroutine between its Lock and the deferred *)
(* Unlock, which runs when the function returns; a caller's pc says where  *)
(* it is.                                                                  *)
(***************************************************************************)
\* pcs between idleConnLock.Lock() and the deferred Unlock
LockedPcs == {"pop.locked", "pop.dialing", "push.locked", "push.closing"}
\* pcs inside net.Dial and inside rc.close()
NetworkPcs == {"pop.dialing", "push.closing"}
\* the goroutines holding idleConnLock
idleConnLock == {k \in Callers : callers[k].pc \in LockedPcs}

\* popConnection: cli.idleConnLock.Lock()
PopLock(k) ==
    /\ callers[k].pc = "idle"
    /\ idleConnLock = {}
    /\ callers' = [callers EXCEPT ![k].pc = "pop.locked"]
    /\ returned' = Nil
    /\ UNCHANGED <<idleConn, maxIdleConn, conns, pipe, testVars>>

\* popConnection: the list is not empty; its last connection is returned
PopTake(k) ==
    /\ callers[k].pc = "pop.locked"
    /\ Len(idleConn) # 0
    /\ Let(popConnection(idleConn, TRUE), LAMBDA r :
           /\ idleConn' = r.idle
           /\ callers' = [callers EXCEPT ![k] = Caller("holding", r.rc.cn)])
    /\ returned' = Nil
    /\ UNCHANGED <<maxIdleConn, conns, pipe, testVars>>

\* popConnection: the list is empty; return cli.newConnection() begins net.Dial
PopDial(k) ==
    /\ callers[k].pc = "pop.locked"
    /\ Len(idleConn) = 0
    /\ callers' = [callers EXCEPT ![k].pc = "pop.dialing"]
    /\ returned' = Nil
    /\ UNCHANGED <<idleConn, maxIdleConn, conns, pipe, testVars>>

\* net.Dial is over; newConnection and popConnection return
PopDialed(k, ok) ==
    /\ callers[k].pc = "pop.dialing"
    /\ ok => Len(conns) < MaxConns
    /\ Let(popConnection(idleConn, ok), LAMBDA r :
           /\ idleConn' = r.idle
           /\ conns' = IF r.rc.dialed THEN Append(conns, FreshConn) ELSE conns
           /\ callers' = [callers EXCEPT ![k] =
                            IF r.rc.err # Nil THEN Caller("idle", 0)
                            ELSE Caller("holding", r.rc.cn)]
           /\ returned' = IF r.rc.err # Nil THEN r.rc.err ELSE Nil)
    /\ UNCHANGED <<maxIdleConn, pipe, testVars>>

\* pushConnection: cli.idleConnLock.Lock()
PushLock(k) ==
    /\ callers[k].pc = "pushing"
    /\ idleConnLock = {}
    /\ callers' = [callers EXCEPT ![k].pc = "push.locked"]
    /\ returned' = Nil
    /\ UNCHANGED <<idleConn, maxIdleConn, conns, pipe, testVars>>

\* pushConnection: below capacity the connection is appended
PushAppend(k) ==
    /\ callers[k].pc = "push.locked"
    /\ ~pushConnection(idleConn, maxIdleConn, callers[k].cn).closed
    /\ idleConn' = pushConnection(idleConn, maxIdleConn, callers[k].cn).idle
    /\ callers' = [callers EXCEPT ![k] = pushed(callers[k]).caller]
    /\ returned' = IF pushed(callers[k]).returns THEN callers[k].err ELSE Nil
    /\ UNCHANGED <<maxIdleConn, conns, pipe, testVars>>

\* pushConnection: at capacity rc.close() begins
PushClose(k) ==
    /\ callers[k].pc = "push.locked"
    /\ pushConnection(idleConn, maxIdleConn, callers[k].cn).closed
    /\ callers' = [callers EXCEPT ![k].pc = "push.closing"]
    /\ returned' = Nil
    /\ UNCHANGED <<idleConn, maxIdleConn, conns, pipe, testVars>>

\* rc.close() is over; pushConnection returns
PushClosed(k) ==
    /\ callers[k].pc = "push.closing"
    /\ conns' = [conns EXCEPT ![callers[k].cn] = DeadConn("pushConnection")]
    /\ callers' = [callers EXCEPT ![k] = pushed(callers[k]).caller]
    /\ returned' = IF pushed(callers[k]).returns THEN callers[k].err ELSE Nil
    /\ UNCHANGED <<idleConn, maxIdleConn, pipe, testVars>>

\* SetMaxIdleConncetions called by a goroutine while others make requests:
\* the call has begun and is about to store; no lock is taken
SetMaxIdleBegin(k) ==
    /\ callers[k].pc = "idle"
    /\ callers' = [callers EXCEPT ![k].pc = "setMaxIdle"]
    /\ returned' = Nil
    /\ UNCHANGED <<idleConn, maxIdleConn, conns, pipe, testVars>>

\* a faulty SetMaxIdleConncetions: the idle connections above the new
\* maximum are closed and dropped from the list
SetMaxIdleStoreCloses(k, maxIdle) ==
    /\ callers[k].pc = "setMaxIdle"
    /\ maxIdleConn' = maxIdle
    /\ idleConn' = SubSeq(idleConn, 1, Min(Len(idleConn), maxIdle))
    /\ conns' = [i \in 1..Len(conns) |->
                   IF \E j \in 1..Len(idleConn) : j > maxIdle /\ idleConn[j] = i
                   THEN DeadConn("SetMaxIdleConncetions") ELSE conns[i]]
    /\ callers' = [callers EXCEPT ![k].pc = "idle"]
    /\ returned' = Nil
    /\ UNCHANGED <<pipe, testVars>>

\* cli.maxIdleConn = maxIdle, and the return
SetMaxIdleStore(k, maxIdle) ==
    /\ callers[k].pc = "setMaxIdle"
    /\ maxIdleConn' = maxIdle
    /\ callers' = [callers EXCEPT ![k].pc = "idle"]
    /\ returned' = Nil
    /\ UNCHANGED <<idleConn, conns, pipe, testVars>>

NextLock ==
    \/ \E k \in Callers : SetMaxIdleBegin(k)
    \/ \E k \in Callers, m \in (-1)..MaxIdleCfg : SetMaxIdleStore(k, m)
    \/ \E k \in Callers : PopLock(k)
    \/ \E k \in Callers : PopTake(k)
    \/ \E k \in Callers : PopDial(k)
    \/ \E k \in Callers, ok \in BOOLEAN : PopDialed(k, ok)
    \/ \E k \in Callers, rq \in Requests, flushOK \in BOOLEAN : Send(k, rq, flushOK)
    \/ \E k \in Callers, reply \in RequestReplies :
          Receive(k, reply, Len(EncodeReply(reply)))
    \/ \E k \in Callers : PushLock(k)
    \/ \E k \in Callers : PushAppend(k)
    \/ \E k \in Callers : PushClose(k)
    \/ \E k \in Callers : PushClosed(k)
    \/ \E k \in Callers : CheckStatus(k)

SpecLock == Init /\ [][NextLock]_vars

(***************************************************************************)
(* Properties                                                              *)
(***************************************************************************)
\* x is an element of the sequence seq
Has(seq, x) == \E j \in 1..Len(seq) : seq[j] = x

\* where a caller is while withConnection has a connection popped and has
\* neither pushed nor closed it
HoldingPcs == {"holding", "reading", "pushing"}

\* the errors that are faults of the connection, not replies of the server
FaultKinds == {"io", "ErrInvalidValue", "ErrInvalidReplyMarker", "ErrInvalidArgumentType"}

\* the value a BulkReply holds once it has read the bulk frame f
PayloadOf(f) == IF f.t = "null" THEN NilBytes ELSE Bytes(f.b)

\* the request encoding of the protocol: a bulk string, a number's decimal
\* digits, an argument's payload, a whole command
BulkFrame(p) == <<36>> \o Decimal(Len(p)) \o <<13, 10>> \o p \o <<13, 10>>
SignedDecimal(n) == IF n < 0 THEN <<45>> \o Decimal(0 - n) ELSE Decimal(n)
ArgPayload(a) ==
    IF a.kind \in {"int", "int64", "duration"} THEN SignedDecimal(I64Small(a.i)) ELSE a.b
RECURSIVE ArgFrames(_)
ArgFrames(args) ==
    IF args = <<>> THEN <<>>
    ELSE BulkFrame(ArgPayload(Head(args))) \o ArgFrames(Tail(args))
CommandFrame(cmd, args) ==
    <<42>> \o Decimal(1 + Len(args)) \o <<13, 10>> \o BulkFrame(cmd) \o ArgFrames(args)

\* C1: acquires and releases keep the idle list within maxIdleConn.  The
\* list starts within it; no step that leaves maxIdleConn as it is takes the
\* list from within the maximum to above it; whenever the list grows it
\* grows to a length within the maximum; and a release (the push of
\* withConnection, the push of Flush) that finds the list at capacity leaves
\* the list as it was and closes the connection.
C1_IdleListWithinMaximum ==
    /\ Len(idleConn) <= maxIdleConn
    /\ [][ /\ (maxIdleConn' = maxIdleConn /\ Len(idleConn) <= maxIdleConn)
                => Len(idleConn') <= maxIdleConn
           /\ Len(idleConn') > Len(idleConn) => Len(idleConn') <= maxIdleConn
           /\ \A k \in Callers :
                (/\ callers[k].pc = "pushing"
                 /\ callers'[k].pc # "pushing"
                 /\ Len(idleConn) >= maxIdleConn)
                => (idleConn' = idleConn /\ ~conns'[callers[k].cn].open)
           /\ (pipe.st = "pushing" /\ pipe'.st = "flushed" /\ Len(idleConn) >= maxIdleConn)
                => (idleConn' = idleConn /\ ~conns'[pipe.cn].open) ]_vars

\* C1 witness: the list is full at a maximum of one, every caller is back
\* from its request, and pushConnection has closed the second connection
\* rather than append it.
C1_Witness ==
    /\ maxIdleConn = 1
    /\ idleConn = <<1>>
    /\ Len(conns) = 2
    /\ conns[1].open
    /\ conns[2] = DeadConn("pushConnection")
    /\ \A k \in Callers : callers[k].pc = "idle"

\* C2: when a single-shot request returns an error that is a fault of the
\* connection (I/O, ErrInvalidValue, ErrInvalidReplyMarker,
\* ErrInvalidArgumentType), its connection is closed and is not in the idle
\* list when the error is returned; and no closed connection is ever in the
\* idle list or in the hands of a caller or of an open Pipeline.
C2_FaultClosesConnection ==
    /\ [](\A i \in 1..Len(conns) :
             ~conns[i].open =>
                /\ ~Has(idleConn, i)
                /\ \A k \in Callers :
                      callers[k].pc \in HoldingPcs => callers[k].cn # i
                /\ pipe.st \in {"open", "reading", "pushing"} => pipe.cn # i)
    /\ [][\A k \in Callers :
             (/\ callers[k].pc \in HoldingPcs
              /\ callers'[k].pc = "idle"
              /\ returned'.kind \in FaultKinds)
             => (~conns'[callers[k].cn].open /\ ~Has(idleConn', callers[k].cn))]_vars

\* C2 witness: a request has just returned ErrInvalidReplyMarker,
\* withConnection has closed its connection, which is not in the idle list,
\* and the other caller holds a connection dialed after it.
C2_Witness ==
    /\ returned = ErrInvalidReplyMarker
    /\ \E i \in 1..Len(conns), k \in Callers :
          /\ conns[i] = DeadConn("withConnection")
          /\ ~Has(idleConn, i)
          /\ callers[k].pc = "holding"
          /\ callers[k].cn > i

\* C3: a single-shot request whose fn returned nil or an ErrReply has its
\* connection released (appended to the idle list below capacity, closed
\* otherwise) and returns that error; and a request the server answers with
\* a well-formed error frame goes on to that release with an ErrReply once
\* the frame has arrived.
C3_ServerErrorReleasesConnection ==
    [][\A k \in Callers :
         /\ (callers[k].pc = "pushing" /\ callers'[k].pc # "pushing")
               => /\ IF Len(idleConn) < maxIdleConn
                     THEN /\ idleConn' = Append(idleConn, callers[k].cn)
                          /\ conns'[callers[k].cn].open
                     ELSE /\ idleConn' = idleConn
                          /\ ~conns'[callers[k].cn].open
                  /\ callers'[k].pc = "idle" => returned' = callers[k].err
         /\ \A reply \in ErrorReplies : \A n \in 1..Len(EncodeReply(reply)) :
               (Receive(k, reply, n) /\ callers'[k].pc # "reading")
               => /\ callers'[k].pc = "pushing"
                  /\ IsErrReply(callers'[k].err)
                  /\ conns'[callers[k].cn].open]_vars

\* C3 witness: a caller's request was answered with an error frame; the
\* caller panicked with the connection in its hands, open and not idle.
C3_Witness ==
    \E k \in Callers :
        /\ callers[k].pc = "panicked"
        /\ conns[callers[k].cn].open
        /\ ~Has(idleConn, callers[k].cn)

\* C4: every connection has at most one holder: it is in the idle list at
\* most once, or with one caller, or bound to the Pipeline, never two of these.
C4_OneHolder ==
    \A i \in 1..Len(conns) :
        Cardinality({k \in Callers : callers[k].cn = i})
          + Cardinality({j \in 1..Len(idleConn) : idleConn[j] = i})
          + (IF pipe.cn = i THEN 1 ELSE 0) <= 1

\* C4 witness: the Pipeline is open on one connection while a caller, its
\* request under way, holds the other, and the idle list is empty.
C4_Witness ==
    /\ pipe.st = "open"
    /\ \E k \in Callers :
          /\ callers[k].pc = "holding"
          /\ callers[k].cn # pipe.cn
          /\ conns[callers[k].cn].open
    /\ conns[pipe.cn].open
    /\ idleConn = <<>>

\* a turn of the loop of Flush in which the frame of the Reply it is at has
\* arrived, that frame and those before it being frames of F
ReadsFrameOf(F) ==
    /\ pipe.st = "reading"
    /\ pipe' # pipe
    /\ Len(pipe'.arrived) >= pipe.next
    /\ \A j \in 1..pipe.next : pipe'.arrived[j] \in F

\* C5: a Flush of N commands that the server answers with N well-formed bulk
\* frames returns the N Replies, no error, and the i-th Reply holds the
\* payload of the i-th frame: the turn of the loop that reads the i-th
\* frame puts its payload on the i-th Reply, leaves the others and goes on
\* to the next Reply, or to pushConnection after the last; and when the loop
\* is over with bulk frames only, there are as many frames as Replies.
C5_FlushResolvesInOrder ==
    /\ []((/\ pipe.st = "pushing"
           /\ \A j \in 1..Len(pipe.arrived) : pipe.arrived[j] \in BulkReplies)
          => /\ Len(pipe.arrived) = Len(pipe.replies)
             /\ \A j \in 1..Len(pipe.replies) :
                   pipe.replies[j] = [val |-> PayloadOf(pipe.arrived[j]), err |-> Nil])
    /\ [][/\ ReadsFrameOf(BulkReplies) =>
               /\ pipe'.st = IF pipe.next = Len(pipe.replies) THEN "pushing" ELSE "reading"
               /\ pipe'.next = pipe.next + 1
               /\ pipe'.replies =
                     [pipe.replies EXCEPT ![pipe.next] =
                        [val |-> PayloadOf(pipe'.arrived[pipe.next]), err |-> Nil]]
          /\ (pipe.st = "pushing" /\ pipe'.st # "pushing") =>
               /\ pipe'.st = "flushed"
               /\ pipe'.ret = [isnil |-> FALSE, err |-> Nil]
               /\ pipe'.replies = pipe.replies]_vars

\* C5 witness: a Flush of two commands has returned, the first Reply holding
\* the payload of the first frame and the second the null payload of the
\* second frame.
C5_Witness ==
    /\ pipe.st = "flushed"
    /\ ~pipe.ret.isnil
    /\ Len(pipe.replies) = 2
    /\ pipe.arrived = <<Reply("bulk", <<97, 98>>), Reply("null", <<>>)>>
    /\ pipe.replies[1].val = Bytes(<<97, 98>>)
    /\ pipe.replies[2].val = NilBytes

\* C6: when the read of the k-th Reply of a Flush fails with a fault (a
\* malformed length line, another marker, an I/O error), the loop stops:
\* Flush returns nil and the fault, no Reply is touched, those from k on
\* being as Get made them when the Pipeline is flushed for the first time,
\* and the connection is closed and not in the idle list; and a connection
\* Flush has closed is never in the idle list, with a caller, or bound to a
\* Pipeline made later.
C6_FlushStopsAtFault ==
    /\ [](\A i \in 1..Len(conns) :
             conns[i].by = "Flush" =>
                /\ ~conns[i].open
                /\ ~Has(idleConn, i)
                /\ \A k \in Callers : callers[k].cn # i
                /\ pipe.st = "open" => pipe.cn # i)
    /\ [][(pipe.st = "reading" /\ pipe'.st = "failed") =>
             /\ pipe'.ret.isnil
             /\ pipe'.ret.err.kind \in FaultKinds
             /\ pipe'.replies = pipe.replies
             /\ ~pipe.again =>
                   \A j \in pipe.next..Len(pipe.replies) : pipe.replies[j] = NewBulkReply
             /\ ~conns'[pipe.cn].open
             /\ ~Has(idleConn', pipe.cn)]_vars

\* C6 witness: a Flush failed on its Reply and closed the connection; the
\* Pipeline was flushed again, and the connection is now the one a Pipeline
\* made after that was given by popConnection.
C6_Witness ==
    /\ pipe.st = "open"
    /\ ~pipe.again
    /\ ~conns[pipe.cn].open
    /\ conns[pipe.cn].by = "Flush"
    /\ idleConn = <<>>

\* C7: a Flush whose frames are bulk frames and well-formed error frames
\* returns the Replies and no error, each error frame's ErrReply stored on
\* its own Reply, each other Reply holding its payload, and the connection
\* is released to the pool: the turn of the loop that reads an error frame
\* stores an ErrReply on the Reply it is at, leaves the others and goes on.
C7_ServerErrorStoredOnReply ==
    [][/\ ReadsFrameOf(BulkReplies \cup ErrorReplies) =>
            /\ pipe'.st = IF pipe.next = Len(pipe.replies) THEN "pushing" ELSE "reading"
            /\ pipe'.next = pipe.next + 1
            /\ Len(pipe'.replies) = Len(pipe.replies)
            /\ \A j \in 1..Len(pipe.replies) :
                  IF j # pipe.next THEN pipe'.replies[j] = pipe.replies[j]
                  ELSE IF pipe'.arrived[j] \in ErrorReplies
                  THEN IsErrReply(pipe'.replies[j].err)
                  ELSE pipe'.replies[j] = [val |-> PayloadOf(pipe'.arrived[j]), err |-> Nil]
       /\ (pipe.st = "pushing" /\ pipe'.st # "pushing") =>
            /\ pipe'.st = "flushed"
            /\ pipe'.ret = [isnil |-> FALSE, err |-> Nil]
            /\ pipe'.replies = pipe.replies
            /\ IF Len(idleConn) < maxIdleConn
               THEN idleConn' = Append(idleConn, pipe.cn)
               ELSE ~conns'[pipe.cn].open]_vars

\* C7 witness: the second frame of a Flush was an error frame; the read
\* panicked after the first Reply was resolved, and the connection is
\* neither closed nor in the idle list.
C7_Witness ==
    /\ pipe.st = "panicked"
    /\ Len(pipe.replies) = 2
    /\ pipe.replies[1].val = Bytes(<<97, 98>>)
    /\ conns[pipe.cn].open
    /\ ~Has(idleConn, pipe.cn)

\* C8: sendCommand with arguments of the supported kinds returns nil and
\* writes the argument count, the command as a bulk string and each argument
\* as a bulk string whose payload, for an integer or a duration, is its
\* decimal representation.
C8_SendCommandWritesFrame ==
    [][\A cmd \in TestCommands, args \in TestArgLists :
         (/\ \A j \in 1..Len(args) : args[j].kind # "other"
          /\ TestSendCommand(cmd, args))
         => (tout'.err = Nil /\ tout'.val = Bytes(CommandFrame(cmd, args)))]_vars

\* C8 witness: SELECT 0 was sent and what was written is
\* "*2\r\n$6\r\nSELECT\r\n$1\r\n1\r\n": the payload is 1, not 0.
C8_Witness ==
    /\ tout.op = "send"
    /\ tout.err = Nil
    /\ tout.val = Bytes(<<42, 50, 13, 10, 36, 54, 13, 10, 83, 69, 76, 69, 67, 84, 13, 10,
                          36, 49, 13, 10, 49, 13, 10>>)

\* C9: btoi64 of what itob64 wrote for i into a buffer of at least 20 bytes,
\* the longest representation of an int64, returns i and no error.
C9_Btoi64InvertsItob64 ==
    [][(/\ tout.op = "itob64"
        /\ tout.n >= 20
        /\ tout'.op = "btoi64"
        /\ tout'.val = tout.val)
       => (tout'.i = tout.i /\ tout'.err = Nil)]_vars

\* C9 witness: btoi64 has returned the least int64 from the 20 bytes
\* "-9223372036854775808".
C9_Witness ==
    /\ tout.op = "btoi64"
    /\ tout.err = Nil
    /\ tout.i = MinInt64
    /\ tout.val = Bytes(<<45, 57, 50, 50, 51, 51, 55, 50, 48, 51, 54, 56, 53, 52, 55, 55,
                          53, 56, 48, 56>>)

\* C10: with every payload written flushed, a bulk read returns the oldest
\* payload not yet read, exactly and with no error, and takes from the
\* stream that payload's frame and nothing else: its length line, its bytes
\* and the terminator.
C10_BulkReadReturnsWritten ==
    [][(tq # <<>> /\ tq' = Tail(tq))
       => /\ tout'.err = Nil
          /\ tout'.val = Bytes(Head(tq))
          /\ tc.rd = BulkFrame(Head(tq)) \o tc'.rd
          /\ tq' = <<>> => tc'.rd = <<>>]_vars

\* C10 witness: the 30-byte payload, longer than the 24 bytes of rc.buf, has
\* been read back with another payload still to read.
C10_Witness ==
    /\ tout.op = "read"
    /\ tout.err = Nil
    /\ tout.val = Bytes(LongPayload)
    /\ tc.blen = TestBufLen
    /\ tq # <<>>

\* the lines of WireLines that are numerals: "-1" and "-5", and "7", "2", "0"
NegativeNumerals == {<<45, 49>>, <<45, 53>>}
NaturalNumerals == {<<55>>, <<50>>, <<48>>}

\* C11: readBulkBytes on a frame whose marker is not '-' and whose line is a
\* negative numeral returns nil and no error and takes the marker and the
\* line from the stream, nothing more, whatever the marker is; when the line
\* is a natural numeral, a marker other than '$' gives ErrInvalidReplyMarker
\* and '$' does not.
C11_NullBulkBeforeMarker ==
    [][tout'.op = "readBulkBytes" =>
       \A m \in WireMarkers \ {errorReplyMarker}, l \in WireLines, t \in WireTrailers :
          tc.rd = <<m>> \o l \o eol \o t =>
             /\ l \in NegativeNumerals =>
                   (tout'.val = NilBytes /\ tout'.err = Nil /\ tc'.rd = t)
             /\ (l \in NaturalNumerals /\ m # bulkReplyMarker) =>
                   (tout'.val = NilBytes /\ tout'.err = ErrInvalidReplyMarker /\ tc'.rd = t)
             /\ (l \in NaturalNumerals /\ m = bulkReplyMarker) =>
                   tout'.err # ErrInvalidReplyMarker]_vars

\* C11 witness: readBulkBytes has returned nil and no error, and "ab\r\n",
\* which followed the length line, is still to be read.
C11_Witness ==
    /\ tout.op = "readBulkBytes"
    /\ tout.val = NilBytes
    /\ tout.err = Nil
    /\ tc.rd = <<97, 98, 13, 10>>

\* b is a numeral: one or more digits after an optional leading '-'
IsNumeral(b) ==
    /\ Len(b) >= 1
    /\ \A j \in 2..Len(b) : b[j] \in 48..57
    /\ b[1] \in 48..57 \/ (b[1] = 45 /\ Len(b) >= 2)

\* u * 10 + d with nothing lost, on five limbs
WideMulAdd(u, d) ==
    LET t0 == u[1] * 10 + d
        t1 == u[2] * 10 + (t0 \div LimbBase)
        t2 == u[3] * 10 + (t1 \div LimbBase)
        t3 == u[4] * 10 + (t2 \div LimbBase)
        t4 == u[5] * 10 + (t3 \div LimbBase)
    IN <<t0 % LimbBase, t1 % LimbBase, t2 % LimbBase, t3 % LimbBase, t4>>

\* the number the digits b[k..] denote after the digits that gave acc
RECURSIVE Magnitude(_, _, _)
Magnitude(b, k, acc) ==
    IF k > Len(b) THEN acc ELSE Magnitude(b, k + 1, WideMulAdd(acc, b[k] - 48))

\* the int64 v is the number the numeral b denotes
Denotes(b, v) ==
    LET neg == b[1] = 45
        mag == Magnitude(b, IF neg THEN 2 ELSE 1, <<0, 0, 0, 0, 0>>)
        u   == <<mag[1], mag[2], mag[3], mag[4]>>
    IN /\ mag[5] = 0
       /\ IF neg THEN ~I64IsNeg(u) \/ u = MinInt64 ELSE ~I64IsNeg(u)
       /\ v = IF neg THEN U64Neg(u) ELSE u

\* the number the numeral b denotes, exactly, on five limbs, without its sign
MagnitudeOf(b) == Magnitude(b, IF b[1] = 45 THEN 2 ELSE 1, <<0, 0, 0, 0, 0>>)

\* the number the numeral b denotes, modulo 2^64, as a two's complement int64
Wrapped(b) ==
    Let(MagnitudeOf(b), LAMBDA mag :
        IF b[1] = 45 THEN U64Neg(<<mag[1], mag[2], mag[3], mag[4]>>)
        ELSE <<mag[1], mag[2], mag[3], mag[4]>>)

\* the number the numeral b denotes is an int64
InRange(b) == Denotes(b, Wrapped(b))

\* C12, as stated: btoi64 returns ErrInvalidValue for the empty input, for "-"
\* and for an input with a byte that is not a digit after the optional
\* leading '-', and for every numeral it returns no error and the number the
\* numeral denotes.
C12_Btoi64DecodesNumerals ==
    [][tout'.op = "btoi64" =>
          IF IsNumeral(tout'.val.b)
          THEN tout'.err = Nil /\ Denotes(tout'.val.b, tout'.i)
          ELSE tout'.err = ErrInvalidValue]_vars

\* C12, amended: btoi64 returns ErrInvalidValue for the empty input, for "-"
\* and for an input with a byte that is not a digit after the optional
\* leading '-'; for a numeral whose number is an int64 it returns no error
\* and that number.
C12_Btoi64DecodesInRange ==
    [][tout'.op = "btoi64" =>
          /\ ~IsNumeral(tout'.val.b) => tout'.err = ErrInvalidValue
          /\ (IsNumeral(tout'.val.b)
              /\ InRange(tout'.val.b))
                => (tout'.err = Nil /\ Denotes(tout'.val.b, tout'.i))]_vars

\* C12 witness: btoi64 of "9223372036854775807" has returned no error and
\* the greatest int64.
C12_Witness ==
    /\ tout.op = "btoi64"
    /\ tout.val = Bytes(<<57, 50, 50, 51, 51, 55, 50, 48, 51, 54, 56, 53, 52, 55, 55,
                          53, 56, 48, 55>>)
    /\ tout.err = Nil
    /\ tout.i = MaxInt64

\* the integers of TestInts that are small enough to be written as integers
SmallTestInts == {0, 1, -1, 9, 10, 99, 100, -100, 1234, -1234}

\* C13: itob64 into a buffer of n bytes returns the first n bytes of the
\* full representation, sign included, when that is longer than n bytes, and
\* the full representation otherwise; into an empty buffer it returns
\* nothing.  The full representation is what a 32-byte buffer is given, the
\* decimal digits of the integer.
C13_Itob64Truncates ==
    [][tout'.op = "itob64" =>
          LET full == itob64(tout'.i, 32)
          IN /\ \A n \in SmallTestInts : tout'.i = I64(n) => full = SignedDecimal(n)
             /\ tout'.val.b = SubSeq(full, 1, Min(tout'.n, Len(full)))
             /\ Len(tout'.val.b) = Min(tout'.n, Len(full))
             /\ tout'.n = 0 => tout'.val.b = <<>>]_vars

\* C13 witness: itob64 of -1234 into a buffer of two bytes has returned "-1".
C13_Witness ==
    /\ tout.op = "itob64"
    /\ tout.i = I64(-1234)
    /\ tout.n = 2
    /\ tout.val = Bytes(<<45, 49>>)

\* the reads that begin with readI64
IntegerFramedReads ==
    {"readI64", "readInteger", "readArgumentCount", "readBulkBytes", "readBulkString"}

\* C14: readI64, readInteger, readArgumentCount and the two bulk reads, on a
\* frame that is '-' and any error text, return an ErrReply (neither
\* ErrInvalidReplyMarker nor ErrInvalidValue) and take the frame up to its
\* line terminator from the stream.
C14_ErrorFrameIsErrReply ==
    [][tout'.op \in IntegerFramedReads =>
       \A l \in WireLines, t \in WireTrailers :
          tc.rd = <<errorReplyMarker>> \o l \o eol \o t =>
             (IsErrReply(tout'.err) /\ tc'.rd = t)]_vars

\* C14 witness: readI64 has read '-' and the line after it, "ab\r\n" is
\* left in the stream, and what came back is the panic of parseErrReply.
C14_Witness ==
    /\ tout.op = "readI64"
    /\ tout.marker = errorReplyMarker
    /\ tout.err = Panic
    /\ tc.rd = <<97, 98, 13, 10>>

\* the status a method checks for
Sentinel(by) == IF by = "Ping" THEN pongStatus ELSE okStatus

\* C15: when Ping or Select is answered with a well-formed status reply
\* whose text is not the one it expects, its connection is released as
\* after a success (appended to the idle list below capacity and left open,
\* closed by pushConnection at capacity) and it returns ErrInvalidStatus.
C15_InvalidStatusKeepsConnection ==
    [][\A k \in Callers :
         /\ \A reply \in StatusReplies : \A n \in 1..Len(EncodeReply(reply)) :
               (/\ callers[k].by \in {"Ping", "Select"}
                /\ reply.b # Sentinel(callers[k].by)
                /\ Receive(k, reply, n)
                /\ callers'[k].pc # "reading")
               => /\ callers'[k].pc = "pushing"
                  /\ callers'[k].got = Bytes(reply.b)
                  /\ conns'[callers[k].cn].open
         /\ (/\ callers[k].pc = "pushing"
             /\ callers[k].by \in {"Ping", "Select"}
             /\ callers[k].err = Nil)
               => /\ callers'[k].pc \in {"pushing", "checking"}
                  /\ callers'[k].pc = "checking" =>
                        IF Len(idleConn) < maxIdleConn
                        THEN /\ idleConn' = Append(idleConn, callers[k].cn)
                             /\ conns'[callers[k].cn].open
                        ELSE /\ idleConn' = idleConn
                             /\ conns'[callers[k].cn] = DeadConn("pushConnection")
         /\ (/\ callers[k].pc = "checking"
             /\ callers'[k].pc # "checking"
             /\ callers[k].by \in {"Ping", "Select"}
             /\ ~callers[k].got.null
             /\ callers[k].got # Bytes(Sentinel(callers[k].by)))
               => returned' = ErrInvalidStatus]_vars

\* C15 witness: Ping was answered "+none" and its connection is in the idle
\* list again; before Ping has compared the status, a request of the other
\* caller on that connection was answered "+PONG", which is what the status
\* of the first now shows.
C15_Witness ==
    \E k \in Callers :
        /\ callers[k].pc = "checking"
        /\ callers[k].by = "Ping"
        /\ callers[k].got = Bytes(<<110, 111, 110, 101>>)
        /\ callers[k].status = Bytes(pongStatus)
        /\ Has(idleConn, callers[k].buf)
        /\ conns[callers[k].buf].open

\* the index of the first argument of an unsupported kind, 0 if there is none
FirstUnsupported(args) ==
    IF \E j \in 1..Len(args) : args[j].kind = "other"
    THEN CHOOSE j \in 1..Len(args) :
            args[j].kind = "other" /\ \A l \in 1..(j - 1) : args[l].kind # "other"
    ELSE 0

\* C16: a single-shot request with an argument of an unsupported kind
\* returns ErrInvalidArgumentType; what it has written is the argument count,
\* the command and the arguments before the unsupported one, and nothing for
\* it or after it; nothing is read from the connection, whatever the peer
\* has sent; and the connection is closed by withConnection and is not in
\* the idle list.
C16_UnsupportedArgumentClosesConnection ==
    [][\A k \in Callers, rq \in Requests :
         (/\ FirstUnsupported(rq.args) > 0
          /\ callers[k].pc = "holding"
          /\ Send(k, rq, TRUE))
         => LET cn == callers[k].cn
            IN /\ callers'[k].pc = "idle"
               /\ returned' = ErrInvalidArgumentType
               /\ conns'[cn] = DeadConn("withConnection")
               /\ idleConn' = idleConn
               /\ ~Has(idleConn', cn)
               /\ \A flushOK \in BOOLEAN :
                     LET f == requestWrite(conns[cn], rq, flushOK)
                     IN /\ f.err = ErrInvalidArgumentType
                        /\ f.c.rd = conns[cn].rd
                        /\ f.c.w = conns[cn].w
                                   \o <<42>> \o Decimal(1 + Len(rq.args)) \o eol
                                   \o BulkFrame(rq.cmd)
                                   \o ArgFrames(SubSeq(rq.args, 1,
                                                       FirstUnsupported(rq.args) - 1))]_vars

\* C16 witness: the last request returned ErrInvalidArgumentType,
\* withConnection has closed its connection, and no connection is idle.
C16_Witness ==
    /\ returned = ErrInvalidArgumentType
    /\ \E i \in 1..Len(conns) : conns[i] = DeadConn("withConnection")
    /\ idleConn = <<>>
    /\ \A k \in Callers : callers[k].pc = "idle"

\* C17: idleConnLock is never held while a network operation is in
\* progress: no goroutine holding it is inside net.Dial or inside rc.close().
C17_NoNetworkUnderLock ==
    \A k \in idleConnLock : callers[k].pc \notin NetworkPcs

\* C17 witness: one goroutine is inside net.Dial holding idleConnLock while
\* another, its request done, is waiting to push its connection.
C17_Witness ==
    \E k, l \in Callers :
        /\ callers[k].pc = "pop.dialing"
        /\ k \in idleConnLock
        /\ callers[l].pc = "pushing"

\* C18: the acquire of withConnection, when the idle list is not empty,
\* hands out its last connection, the one released most recently, removes
\* that one, leaves the others in their order and dials nothing; when the
\* list is empty it dials, and hands out the new connection or, the dial
\* having failed, returns the error with the list and the connections as
\* they were.
C18_AcquireIsLastInFirstOut ==
    [][\A k \in Callers, dialOK \in BOOLEAN :
         (callers[k].pc = "idle" /\ Acquire(k, dialOK))
         => IF idleConn # <<>>
            THEN /\ callers'[k] = Caller("holding", idleConn[Len(idleConn)])
                 /\ idleConn' = SubSeq(idleConn, 1, Len(idleConn) - 1)
                 /\ conns' = conns
                 /\ returned' = Nil
            ELSE IF dialOK
            THEN /\ conns' = Append(conns, FreshConn)
                 /\ callers'[k] = Caller("holding", Len(conns) + 1)
                 /\ idleConn' = <<>>
                 /\ returned' = Nil
            ELSE /\ callers'[k] = Caller("idle", 0)
                 /\ returned' = ErrIO
                 /\ idleConn' = idleConn
                 /\ conns' = conns]_vars

\* C18 witness: two connections were dialed and both are open; the first is
\* in a caller's hands again while the second, released before it, is the
\* one left in the idle list.
C18_Witness ==
    /\ Len(conns) = 2
    /\ conns[1].open /\ conns[2].open
    /\ idleConn = <<2>>
    /\ returned = Nil
    /\ pipe.st = "none"
    /\ \E k \in Callers :
          /\ callers[k] = Caller("holding", 1)
          /\ \A l \in Callers \ {k} : callers[l].pc = "idle"

\* C19: readStatusBytes takes the marker and one line from the stream; for
\* '+' it returns the line; for '-' an ErrReply; for '$' and the line "-1"
\* nil and no error; for '$' and another line, and for any other marker,
\* ErrInvalidReplyMarker; and for a line longer than the read buffer
\* ErrInvalidValue.
C19_StatusReadDispatch ==
    [][tout'.op = "readStatusBytes" =>
       /\ \A m \in WireMarkers, l \in WireLines, t \in WireTrailers :
             tc.rd = <<m>> \o l \o eol \o t =>
                /\ tc'.rd = t
                /\ IF m = statusReplyMarker
                   THEN tout'.val = Bytes(l) /\ tout'.err = Nil
                   ELSE IF m = errorReplyMarker
                   THEN tout'.val = NilBytes /\ IsErrReply(tout'.err)
                   ELSE IF m = bulkReplyMarker /\ l = <<45, 49>>
                   THEN tout'.val = NilBytes /\ tout'.err = Nil
                   ELSE tout'.val = NilBytes /\ tout'.err = ErrInvalidReplyMarker
       /\ \A m \in WireMarkers :
             tc.rd = <<m>> \o WireLongLine \o eol =>
                (tout'.val = NilBytes /\ tout'.err = ErrInvalidValue)]_vars

\* C19 witness: readStatusBytes has read '-' and a line, with "ab\r\n" left
\* in the stream, and what came back is the panic of parseErrReply.
C19_Witness ==
    /\ tout.op = "readStatusBytes"
    /\ tout.err = Panic
    /\ tc.rd = <<97, 98, 13, 10>>

\* the number a numeral of WireLines denotes
LineValue(l) ==
    CASE l = <<45, 49>> -> -1
      [] l = <<45, 53>> -> -5
      [] l = <<55>> -> 7
      [] l = <<50>> -> 2
      [] l = <<48>> -> 0

\* what readI64, readInteger and readArgumentCount are to return on a
\* frame whose marker is one of ms: the number and the marker seen for a
\* numeral, ErrInvalidReplyMarker when the read expects another marker,
\* ErrInvalidValue for a line that is no numeral; and on a line longer than
\* the read buffer, after any marker: ErrInvalidValue
TypedReadsValidate(ms) ==
    LET expects == IF tout'.op = "readInteger" THEN {integerReplyMarker}
                   ELSE IF tout'.op = "readArgumentCount" THEN {multiBulkReplyMarker}
                   ELSE WireMarkers
    IN /\ \A m \in ms, l \in WireLines, t \in WireTrailers :
             tc.rd = <<m>> \o l \o eol \o t =>
                /\ tc'.rd = t
                /\ tout'.op = "readI64" => tout'.marker = m
                /\ IF l \in NegativeNumerals \cup NaturalNumerals
                   THEN /\ tout'.i = I64(LineValue(l))
                        /\ tout'.err = IF m \in expects THEN Nil ELSE ErrInvalidReplyMarker
                   ELSE tout'.err = ErrInvalidValue
       /\ \A m \in WireMarkers :
             tc.rd = <<m>> \o WireLongLine \o eol => tout'.err = ErrInvalidValue

\* C20: readI64 returns the number of the line and the marker it saw;
\* readInteger returns ErrInvalidReplyMarker for a numeral after a marker
\* that is neither ':' nor the error marker '-', readArgumentCount for one
\* that is neither '*' nor '-'; after a marker other than '-' a line that
\* is no numeral gives ErrInvalidValue, and so does, after any marker, '-'
\* included, a line longer than the read buffer.  Of a frame that starts
\* with '-' the line is not decoded, whether it is a numeral or not: the
\* read returns -1 and an error that is neither ErrInvalidReplyMarker nor
\* ErrInvalidValue.
C20_TypedReadsValidateMarker ==
    [][tout'.op \in {"readI64", "readInteger", "readArgumentCount"} =>
          /\ TypedReadsValidate(WireMarkers \ {errorReplyMarker})
          /\ \A l \in WireLines, t \in WireTrailers :
                tc.rd = <<errorReplyMarker>> \o l \o eol \o t =>
                   /\ tc'.rd = t
                   /\ tout'.i = I64(-1)
                   /\ tout'.op = "readI64" => tout'.marker = errorReplyMarker
                   /\ tout'.err \notin {Nil, ErrInvalidReplyMarker, ErrInvalidValue}]_vars

\* C20 as stated: the same for every marker, the error marker '-' included.
C20_AsStated ==
    [][tout'.op \in {"readI64", "readInteger", "readArgumentCount"} =>
          TypedReadsValidate(WireMarkers)]_vars

\* C20 witness: readInteger has read a frame with the number 7, returned
\* ErrInvalidReplyMarker, and left "ab\r\n" in the stream.
C20_Witness ==
    /\ tout.op = "readInteger"
    /\ tout.i = I64(7)
    /\ tout.err = ErrInvalidReplyMarker
    /\ tc.rd = <<97, 98, 13, 10>>

\* "-9223372036854775808"
MinInt64Numeral ==
    <<45, 57, 50, 50, 51, 51, 55, 50, 48, 51, 54, 56, 53, 52, 55, 55, 53, 56, 48, 56>>

\* C26: btoi64 of a numeral whose number is not an int64 returns no error and
\* that number modulo 2^64 as a two's complement int64; btoi64 of
\* "-9223372036854775808" returns no error and the least int64.
C26_Btoi64Wraps ==
    [][tout'.op = "btoi64" =>
          /\ (IsNumeral(tout'.val.b) /\ ~InRange(tout'.val.b))
                => (tout'.err = Nil /\ tout'.i = Wrapped(tout'.val.b))
          /\ tout'.val.b = MinInt64Numeral
                => (tout'.err = Nil /\ tout'.i = MinInt64)]_vars

\* C26 witness: btoi64 of "18446744073709551616", which is 2^64, has
\* returned no error and 0.
C26_Witness ==
    /\ tout.op = "btoi64"
    /\ tout.val = Bytes(<<49, 56, 52, 52, 54, 55, 52, 52, 48, 55, 51, 55, 48, 57, 53,
                          53, 49, 54, 49, 54>>)
    /\ tout.err = Nil
    /\ tout.i = I64(0)

\* the bytes of the commands enqueued on Pipeline p, and whether a Write of
\* the socket made for p has failed
BatchBytes(p) == IF p.ends = <<>> THEN 0 ELSE p.ends[Len(p.ends)]
WriteFailed(p) == p.sent # <<>> /\ conns[p.cn].werr

\* a step of Pipeline.Get, a step of Pipeline.Flush
IsGet == pipe.st = "open" /\ pipe'.st = "open" /\ pipe'.replies # pipe.replies
IsFlush == pipe.st = "open" /\ pipe'.st # "open"

\* C21: no Get gives the socket anything to write, whatever the commands
\* enqueued; the Flush of a batch of one command or more gives it one Write,
\* of the bytes of all the commands; and a Reply is resolved only once that
\* Write was made.
C21_AsStated ==
    [][/\ IsGet => pipe'.sent = pipe.sent
       /\ (IsFlush /\ pipe.replies # <<>>) => pipe'.sent = <<BatchBytes(pipe)>>
       /\ (pipe.st = "reading" /\ ~pipe.again /\ pipe'.replies # pipe.replies)
             => pipe.sent = <<BatchBytes(pipe)>>]_vars

\* C21 witness: a Flush of two commands, of 20 and of 4094 bytes, has
\* returned the Replies; the socket was given a Write of WriterSize bytes by
\* the second Get and one of the other 18 bytes by Flush.
C21_Witness ==
    /\ pipe.st = "flushed"
    /\ ~pipe.again
    /\ Len(pipe.replies) = 2
    /\ BatchBytes(pipe) = WriterSize + 18
    /\ pipe.sent = <<WriterSize, 18>>
    /\ pipe.replies[1].val = Bytes(<<97, 98>>)
    /\ pipe.replies[2].val = Bytes(<<97, 98>>)

\* C22: when a Write of the socket fails in a Pipeline, in a Get or in the
\* flush of Flush, Flush returns nil and an error, and the connection is
\* closed and is not in the idle list.
C22_WriteErrorFailsFlush ==
    [][(/\ pipe.st \in {"open", "reading"}
        /\ pipe'.st \notin {"open", "reading"}
        /\ ~pipe'.again
        /\ WriteFailed(pipe'))
       => /\ pipe'.st = "failed"
          /\ pipe'.ret.isnil
          /\ pipe'.ret.err # Nil
          /\ ~conns'[pipe.cn].open
          /\ ~Has(idleConn', pipe.cn)]_vars

\* C22 witness: the first of two commands went to the server in the buffer
\* the second Get filled, the Write of Flush failed, and the read of the
\* error frame the first command was answered with panicked: Flush has
\* returned nothing and the connection is open.
C22_Witness ==
    /\ pipe.st = "panicked"
    /\ pipe.sent = <<WriterSize, 18>>
    /\ WriteFailed(pipe)
    /\ conns[pipe.cn].open
    /\ ~Has(idleConn, pipe.cn)

\* C23: once Flush has returned, with or without an error, the Pipeline
\* refers to no connection and to no Client, and a Get or a Flush of that
\* Pipeline, in each of its steps, leaves every connection and the idle
\* list as they are.
C23_FlushDetachesPipeline ==
    /\ [](pipe.st \in {"flushed", "failed"} => (pipe.cn = 0 /\ ~pipe.cli))
    /\ [][(\/ \E key \in PipelineKeys, spillOK \in BOOLEAN : StaleGet(key, spillOK)
           \/ StaleFlush
           \/ pipe.again /\ pipe.st \in {"reading", "pushing"} /\ pipe' # pipe)
          => (conns' = conns /\ idleConn' = idleConn)]_vars

\* C23 witness: a second Flush of a Pipeline whose first Flush had failed and
\* closed the connection has read its Reply from what the reader still held
\* and returned nil; the closed connection is in the idle list.
C23_Witness ==
    /\ pipe.st = "flushed"
    /\ Len(pipe.replies) = 1
    /\ pipe.replies[1].val = Bytes(<<97, 98>>)
    /\ \E j \in 1..Len(idleConn) :
          ~conns[idleConn[j]].open /\ conns[idleConn[j]].by = "Flush"

\* the fields of the Client that the statement a caller is at writes
WritesField(k) ==
    CASE callers[k].pc = "setMaxIdle" -> {"maxIdleConn"}
      [] callers[k].pc \in {"pop.locked", "push.locked"} -> {"idleConn"}
      [] OTHER -> {}

\* the fields of the Client that the statement a caller is at reads
ReadsField(k) ==
    CASE callers[k].pc = "push.locked" -> {"idleConn", "maxIdleConn"}
      [] callers[k].pc = "pop.locked" -> {"idleConn"}
      [] OTHER -> {}

\* C24: no caller is at a write of a pool field while another caller is at a
\* read or a write of the same field, unless both hold idleConnLock (which
\* only one caller holds at a time, so no such pair exists).
C24_NoDataRaceOnPoolState ==
    \A a \in Callers : \A b \in Callers \ {a} :
        \A f \in WritesField(a) \cap (ReadsField(b) \cup WritesField(b)) :
            a \in idleConnLock /\ b \in idleConnLock

\* One caller is about to store maxIdleConn without the lock while another,
\* inside pushConnection, is about to compare the idle count with it.
C24_Witness ==
    \E a \in Callers : \E b \in Callers \ {a} :
        /\ callers[a].pc = "setMaxIdle"
        /\ callers[b].pc = "push.locked"
        /\ a \notin idleConnLock

\* C25: SetMaxIdleConncetions closes and removes no connection; a release
\* that finds the idle count at or above the maximum closes its connection
\* and leaves the list alone; an acquire with a non-empty list shortens it
\* by one; so the idle count never grows while it is above the maximum, and
\* once at most the maximum it stays so unless the maximum is lowered again.
C25_LoweredMaximumDrainsIdleList ==
    [][ /\ maxIdleConn' # maxIdleConn => (idleConn' = idleConn /\ conns' = conns)
        /\ \A k \in Callers :
              /\ ( /\ callers[k].pc = "push.locked"
                   /\ callers'[k].pc # "push.locked"
                   /\ Len(idleConn) >= maxIdleConn )
                    => (callers'[k].pc = "push.closing" /\ idleConn' = idleConn)
              /\ (callers[k].pc = "push.closing" /\ callers'[k].pc # "push.closing")
                    => (~conns'[callers[k].cn].open /\ idleConn' = idleConn)
              /\ (callers[k].pc = "pop.locked" /\ callers'[k].pc = "holding")
                    => Len(idleConn') = Len(idleConn) - 1
        /\ Len(idleConn) > maxIdleConn => Len(idleConn') <= Len(idleConn)
        /\ (Len(idleConn) <= maxIdleConn /\ maxIdleConn' >= maxIdleConn)
              => Len(idleConn') <= maxIdleConn'
      ]_vars

\* The maximum was lowered to 0 under two idle connections (nothing is ever
\* appended at maximum 0), and a request has since taken one of them and
\* pushConnection has closed it: one is left in the list.
C25_Witness ==
    /\ maxIdleConn = 0
    /\ Len(idleConn) = 1
    /\ \E i \in 1..Len(conns) : conns[i] = DeadConn("pushConnection")
    /\ \A k \in Callers : callers[k].pc = "idle"

\* C27: every connection in the idle list has an empty write buffer and no
\* unread reply bytes: each reply to a request flushed on it was consumed
\* whole, so the next read on it starts at the first byte of the next reply.
C27_IdleConnectionsInSync ==
    \A j \in 1..Len(idleConn) :
        /\ conns[idleConn[j]].w = <<>>
        /\ conns[idleConn[j]].rd = <<>>
        /\ ~conns[idleConn[j]].werr

\* A Flush that had failed on an array of two bulks was called again and
\* returned nil with the first bulk as the Reply: the connection is in the
\* idle list, closed, with the second bulk unread.
C27_Witness ==
    /\ pipe.st = "flushed"
    /\ Len(pipe.replies) = 1
    /\ pipe.replies[1].val = Bytes(<<97, 98>>)
    /\ idleConn = <<1>>
    /\ ~conns[1].open
    /\ conns[1].rd = <<36, 50, 13, 10, 97, 98, 13, 10>>

\* C28: every open connection is in the idle list, in the hands of a caller
\* whose request is still running, or bound to a Pipeline that has not been
\* flushed: once the request or the Flush is over, the connection is idle
\* or closed.
C28_NoConnectionLeaks ==
    \A i \in 1..Len(conns) :
        conns[i].open =>
            \/ Has(idleConn, i)
            \/ \E k \in Callers : callers[k].pc \in HoldingPcs /\ callers[k].cn = i
            \/ pipe.st \in {"open", "reading", "pushing"} /\ pipe.cn = i

\* A Flush has ended with its connection in the idle list, and a request on
\* the other connection has ended in the panic of parseErrReply: that
\* connection is open, nobody's, and not in the idle list.
C28_Witness ==
    /\ pipe.st = "flushed"
    /\ Len(idleConn) = 1
    /\ \E k \in Callers :
          /\ callers[k].pc = "panicked"
          /\ conns[callers[k].cn].open
          /\ ~Has(idleConn, callers[k].cn)
          /\ \A l \in Callers \ {k} : callers[l].pc = "idle"
=============================================================================
